---------------------------- MODULE Spec2Model ----------------------------
(***************************************************************************)
(* A model of osgb/convert.py: the two public converters grid_to_ll and    *)
(* ll_to_grid, the OSTN02 interpolator find_OSTN02_shifts_at with its      *)
(* process-wide cache ostn_cache, and the record decoder get_ostn_pair.    *)
(*                                                                         *)
(* Numbers.  A grid length (an easting, a northing) is the pair            *)
(* [k, f]: k whole kilometres (floor) and f micrometres within that        *)
(* kilometre, 0 <= f < 10^9, so that int(x/1000) is k and x/1000 - k is    *)
(* f/10^9.  A shift is an integer number of micrometres: an interpolated   *)
(* shift is the exact weighted sum rounded once to the nearest micrometre, *)
(* where the code keeps the IEEE double.  What this resolution cannot      *)
(* decide is left open, with every outcome the double can give: a          *)
(* comparison with a threshold, the side of a rounding tie, and the        *)
(* kilometre square of a difference that is a whole number of kilometres   *)
(* (the double can lie a rounding below it: then f is 10^9, in the square  *)
(* to the west or south).                                                  *)
(*                                                                         *)
(* Geographic points.  The series of reverse_project_onto_ellipsoid and    *)
(* the Helmert shifts are transcendental; a latitude/longitude pair they   *)
(* return is kept as the expression that produced it (the function and     *)
(* its arguments).  project_onto_grid is tabulated, from the code, on      *)
(* the argument values the model calls it with.                            *)
(***************************************************************************)
EXTENDS Integers, Sequences, FiniteSets, TLC

VARIABLES
    ostn_data,    \* convert.py:26, the module-level list of the records of ostn02.data
    ostn_cache,   \* convert.py:27, the module-level dict: key -> decoded pair or None
    pc,           \* where the running call stands ("idle": no call is running)
    call,         \* the running call: function name and arguments
    loc,          \* the running call's local variables
    result,       \* what the call returned or raised (once pc = "done")
    log,          \* history: the calls the running call has made, in order
    cache0,       \* history: ostn_cache as it was when the running call began
    ncalls,       \* history: number of completed top-level calls
    threads       \* the concurrent callers of find_OSTN02_shifts_at, each with its locals

vars == <<ostn_data, ostn_cache, pc, call, loc, result, log, cache0, ncalls, threads>>

\* Number of top-level calls in one behaviour.
MaxCalls == 2

---------------------------------------------------------------------------
(* Values *)

None == [kind |-> "None"]
Unset == [kind |-> "unset"]
Raise(e) == [kind |-> "raise", exc |-> e]
Return(v) == [kind |-> "return", value |-> v]

\* micrometres in a kilometre: the code divides metres by 1000 (lines 372-373, 396-397)
D == 1000 * 1000000

Norm(k, f) == [k |-> k + (f \div D), f |-> f % D]
\* m metres and u micrometres, as a length
Metres(m, u) == Norm(m \div 1000, (m % 1000) * 1000000 + u)
\* the length a moved by u micrometres, to the micrometre
Moved(a, u) == Norm(a.k, a.f + u)
\* The double a - s for a shift of s micrometres (lines 78-79 and 89-90), as
\* the places it can have.  Where the difference is a whole number of
\* kilometres to the micrometre the double is on the line or a rounding below
\* it, and int(x/1000) is the square of the line or the one before it: there
\* the offset is D.
LenSub(a, s) ==
    IF (a.f - s) % D = 0
    THEN { Moved(a, -s), [k |-> Moved(a, -s).k - 1, f |-> D] }
    ELSE { Moved(a, -s) }
\* a length plus a shift of s micrometres, |s| < D (lines 211-212)
LenAdd(a, s) == Norm(a.k, a.f + s)

Abs(n) == IF n < 0 THEN -n ELSE n

\* the element of a one-element set; { F(v) : v \in {e} } evaluates e once
The(S) == CHOOSE v \in S : TRUE

\* Exact arithmetic within 32 bits.  <<q, r>> with a * b = q * D + r and
\* 0 <= r < D, for 0 <= a <= D and 0 <= b < D: both factors are split into
\* base-1000 digits.
MulDivRem(a, b) ==
    LET a0 == a % 1000
        a1 == (a \div 1000) % 1000
        a2 == a \div 1000000
        b0 == b % 1000
        b1 == (b \div 1000) % 1000
        b2 == b \div 1000000
        c0 == a0 * b0
        c1 == a0 * b1 + a1 * b0 + (c0 \div 1000)
        c2 == a0 * b2 + a1 * b1 + a2 * b0 + (c1 \div 1000)
        c3 == a1 * b2 + a2 * b1 + (c2 \div 1000)
    IN  << a2 * b2 * 1000 + c3,
           (c2 % 1000) * 1000000 + (c1 % 1000) * 1000 + (c0 % 1000) >>

\* A fixed-point number <<i, a, b>> is i + a/D + b/D^2 with 0 <= a, b < D.
\* The number i + a/D + b/D^2 for 0 <= a, b < 2 * D, with the carries made.
Fixed(i, a, b) ==
    << i + ((a + (b \div D)) \div D), (a + (b \div D)) % D, b % D >>

\* w/D times the number x = <<i, a, 0>>, for 0 <= w <= D and 0 <= i < D
Scale(w, x) ==
    The({ Fixed(p[1][1], p[1][2] + p[2][1], p[2][2]) :
          p \in { << MulDivRem(w, x[1]), MulDivRem(w, x[2]) >> } })

Plus(x, y) == Fixed(x[1] + y[1], x[2] + y[2], x[3] + y[3])

---------------------------------------------------------------------------
(* The correction-grid dataset (convert.py:26): one record per northing     *)
(* kilometre; a record is a 3-digit count of absent leading columns and    *)
(* then, per column, an east and a north triplet of bytes.                 *)

\* Triplets of bytes: the least and the greatest value that three bytes hold
\* (shifts of 35.264 m and 304.799 m east), the value of "no data", and the
\* triplets of the shifts 95.383, 95.405 east and -72.19, -72.196 north.
T_MIN == <<0, 0, 0>>
T_MAX == <<255, 255, 255>>
T_NODATA == <<49, 17, 16>>
T_E1 == <<58, 22, 23>>
T_E2 == <<58, 23, 13>>
T_N1 == <<59, 4, 2>>
T_N2 == <<59, 3, 28>>

\* The rows 0..5 of the dataset.  They are not records of the file: lines
\* 339-356 decode whatever bytes a record holds, and these are chosen so that
\* a few cells hold every case of the decoder and of the search of
\* grid_to_ll: shifts that differ from node to node by the whole range of a
\* triplet (a search that runs its 20 passes, a search that leaves
\* coverage), a node of "no data", rows of different lengths, and a row
\* that begins at column 1.  In row 1 the columns 6..79 hold "no data" and
\* the columns 80 and 81 the shifts that the doctest of lines 333-334
\* asserts: [91.902, -81.569, 91.916, -81.563].
SouthWestRows == <<
    [lz |-> 0, trip |-> << T_MIN, T_MAX,  T_MIN, T_MAX,  T_MAX, T_MAX,  T_MIN, T_MAX,  T_E1, T_N1,  T_E2, T_N2 >>],
    [lz |-> 0, trip |-> << T_MAX, T_MIN,  T_MAX, T_MAX,  T_MIN, T_MAX,  T_MIN, T_MAX,  T_E2, T_N2,  T_E1, T_N1 >>
                           \o [i \in 1..148 |-> T_NODATA]
                           \o << <<55, 9, 30>>, <<49, 30, 31>>,  <<55, 9, 44>>, <<49, 31, 5>> >>],
    [lz |-> 0, trip |-> << T_MAX, T_MIN,  T_MAX, T_MAX,  T_MAX, T_MIN,  T_MIN, T_MAX,  T_E1, T_N1,  T_E2, T_N2 >>],
    [lz |-> 0, trip |-> << T_MAX, T_MAX,  T_MAX, T_MIN,  T_MAX, T_MAX,  T_MAX, T_MAX,  T_E2, T_N2,  T_E1, T_N1 >>],
    [lz |-> 1, trip |-> << T_E2, T_N2,  T_E1, T_N1,  T_NODATA, T_N1,  T_E1, T_N1,  T_E2, T_N2 >>],
    [lz |-> 0, trip |-> << T_E2, T_N2,  T_E1, T_N1,  T_E2, T_N2,  T_E1, T_N1,  T_E2, T_N2,  T_E1, T_N1 >>]
>>

\* The rows that the doctests of convert.py read, by north index, each with
\* two columns from its first one (lz).  The file gives the shifts to the
\* millimetre; these are the millimetres with which the doctests hold:
\*   rows 170, 171 from column 533 (98.530, -78.648 at the four nodes):
\*     ll_to_grid(51+25/60, 0-5/60-2/3600) is (533338.144, 170369.235);
\*   rows 177, 178 from column 393 (96.083, -77.875):
\*     ll_to_grid(51.5, -2.1) is (393154.801, 177900.605);
\*   rows 233, 234 from column 400 (96.264, -77.458 and 96.262, -77.453):
\*     ll_to_grid(52, -2) is (400096.263, 233505.401), and
\*     (400096.2628, 233505.4007) with rounding=4;
\*   rows 431, 432 from column 331: get_ostn_pair(331, 431) is
\*     [95.383, -72.19, 95.405, -72.196] (lines 336-337), and with
\*     [95.381, -72.146, 95.407, -72.158] in row 432
\*     find_OSTN02_shifts_at(331439.160, 431992.943) is '95.39242 -72.15156';
\*   rows 794, 795 from column 197 (92.600, -57.500):
\*     grid_to_ll(197575, 794790) is '56.9997 -5.33448'.
DoctestRows ==
    170 :> [lz |-> 533, trip |-> << <<61, 25, 2>>, <<52, 26, 8>>,  <<61, 25, 2>>, <<52, 26, 8>> >>] @@
    171 :> [lz |-> 533, trip |-> << <<61, 25, 2>>, <<52, 26, 8>>,  <<61, 25, 2>>, <<52, 26, 8>> >>] @@
    177 :> [lz |-> 393, trip |-> << <<59, 12, 19>>, <<53, 18, 13>>,  <<59, 12, 19>>, <<53, 18, 13>> >>] @@
    178 :> [lz |-> 393, trip |-> << <<59, 12, 19>>, <<53, 18, 13>>,  <<59, 12, 19>>, <<53, 18, 13>> >>] @@
    233 :> [lz |-> 400, trip |-> << <<59, 18, 8>>, <<53, 31, 14>>,  <<59, 18, 8>>, <<53, 31, 14>> >>] @@
    234 :> [lz |-> 400, trip |-> << <<59, 18, 6>>, <<53, 31, 19>>,  <<59, 18, 6>>, <<53, 31, 19>> >>] @@
    431 :> [lz |-> 331, trip |-> << T_E1, T_N1,  T_E2, T_N2 >>] @@
    432 :> [lz |-> 331, trip |-> << <<58, 22, 21>>, <<59, 5, 14>>,  <<58, 23, 15>>, <<59, 5, 2>> >>] @@
    794 :> [lz |-> 197, trip |-> << <<55, 31, 24>>, <<73, 15, 4>>,  <<55, 31, 24>>, <<73, 15, 4>> >>] @@
    795 :> [lz |-> 197, trip |-> << <<55, 31, 24>>, <<73, 15, 4>>,  <<55, 31, 24>>, <<73, 15, 4>> >>]

\* a record with no column: the prefix 000 and nothing after it
BlankRecord == [lz |-> 0, trip |-> <<>>]

\* The records of ostn02.data, the record of north index n at place n + 1.
\* The file is not in the repository: the records are those above, every
\* other one is blank, and the last record is the northernmost that a
\* doctest reads.
ostn02_data ==
    [n \in 1..796 |-> IF n <= 6 THEN SouthWestRows[n]
                      ELSE IF n - 1 \in DOMAIN DoctestRows THEN DoctestRows[n - 1]
                      ELSE BlankRecord]

\* what split(b'\n') of line 26 adds after the last record when the file ends
\* with a newline: the empty bytes b'', with no digits (lz: -1) and no triplets
EmptyRecord == [lz |-> -1, trip |-> <<>>]

\* line 26, for the file without and with a newline after the last record
OstnDataAtImport == { ostn02_data, Append(ostn02_data, EmptyRecord) }

\* len(ostn_data[y]) in bytes: the prefix and the triplets
RowLen(row) == 3 + 3 * Len(row.trip)

\* the raw value of "no data": s == 0 at line 352
NO_DATA_RAW == 50736

\* struct.unpack('BBB', row[index+3*i : index+3*i+3]) and line 351
RawShift(row, index, i) ==
    LET t == row.trip[((index - 3) \div 3) + i + 1]
    IN  t[1] * 1024 + t[2] * 32 + t[3] - NO_DATA_RAW

\* the baselines [86, -82, 86, -82] of line 348, in metres
ShiftBase(i) == IF i % 2 = 0 THEN 86 ELSE -82

get_ostn_pair(x, y) ==
    IF y + 1 > Len(ostn_data) THEN Raise("IndexError")
    ELSE
    LET row == ostn_data[y + 1]
        leading_zeros == row.lz
        index == 3 + 6 * (x - leading_zeros)
    IN  IF row = EmptyRecord THEN Raise("ValueError")
        ELSE IF x < leading_zeros THEN None
        ELSE IF index + 12 > RowLen(row) THEN None
        ELSE IF \E i \in 0..3 : RawShift(row, index, i) = 0 THEN None
        ELSE [kind |-> "pair",
              v |-> [i \in 1..4 |->
                        (ShiftBase(i - 1) * 1000 + RawShift(row, index, i - 1)) * 1000]]

---------------------------------------------------------------------------
(* find_OSTN02_shifts_at (convert.py:358-407), on a cache c.                *)

\* the multiplier of the composite cache key, lines 378 and 387
KEY_STRIDE == 701

CachePut_Fresh(c, key, v) == (key :> v)

\* lines 381 and 390: ostn_cache[key] = v
CachePut(c, key, v) == (key :> v) @@ c

\* The sum of f[i] * s[i] to the nearest micrometre, for shifts s in
\* micrometres and weights f, each given by its two factors in 10^-9 (f[2] is
\* <<t, 1-u>>): the code adds the four products as doubles and does not
\* round.  Each shift is raised by D/2, which keeps every term positive; the
\* weights add up to 1.
SumProducts(f, s) ==
    The({ z[1] + (IF 2 * z[2] >= D THEN 1 ELSE 0) - (D \div 2) :
          z \in { The({ Plus(Plus(term[1], term[2]), Plus(term[3], term[4])) :
                        term \in { [i \in 1..4 |->
                            The({ Scale(f[i][1], y) :
                                  y \in { Scale(f[i][2], <<s[i] + (D \div 2), 0, 0>>) } })] } }) } })

\* lines 404-405: the weighted sum of one component at the four corners
Weighted(f, s0, s1, s2, s3) == SumProducts(f, <<s0, s1, s2, s3>>)

\* lines 396-407: the bilinear interpolation, t and u in micrometres (10^-9
\* of the kilometre square); the weights f0..f3 of lines 399-402 are kept as
\* their factors, so they are exact
Interpolate(lo_shifts, hi_shifts, t, u) ==
    The({ [kind |-> "shifts",
           se |-> Weighted(f, lo_shifts[1], lo_shifts[3], hi_shifts[1], hi_shifts[3]),
           sn |-> Weighted(f, lo_shifts[2], lo_shifts[4], hi_shifts[2], hi_shifts[4])] :
          f \in { << <<D - t, D - u>>, <<t, D - u>>, <<D - t, u>>, <<t, u>> >> } })

\* The result: ret (None, the shifts, or the exception raised), the cache
\* as the call leaves it, and the nodes it called get_ostn_pair for.
find_OSTN02_shifts_at(c, easting, northing) ==
    IF easting.k < 0 THEN [ret |-> None, cache |-> c, decoded |-> <<>>]
    ELSE IF northing.k < 0 THEN [ret |-> None, cache |-> c, decoded |-> <<>>]
    ELSE IF northing.k >= Len(ostn_data) THEN [ret |-> None, cache |-> c, decoded |-> <<>>]
    ELSE
    LET e_index == easting.k
        n_index == northing.k
        lo_key  == e_index + n_index * KEY_STRIDE
        hi_key  == lo_key + KEY_STRIDE
        \* lines 380-381: [got: what get_ostn_pair gave or Unset, cache, decoded]
        Lo == IF lo_key \in DOMAIN c
              THEN [got |-> Unset, cache |-> c, decoded |-> <<>>]
              ELSE The({ [got |-> g,
                          cache |-> IF g.kind = "raise" THEN c ELSE CachePut(c, lo_key, g),
                          decoded |-> << <<e_index, n_index>> >>] :
                         g \in { get_ostn_pair(e_index, n_index) } })
        \* lines 389-390, on the cache lo.cache
        Hi(lo) == IF hi_key \in DOMAIN lo.cache
                  THEN [got |-> Unset, cache |-> lo.cache, decoded |-> lo.decoded]
                  ELSE The({ [got |-> g,
                              cache |-> IF g.kind = "raise" THEN lo.cache
                                        ELSE CachePut(lo.cache, hi_key, g),
                              decoded |-> Append(lo.decoded, <<e_index, n_index + 1>>)] :
                             g \in { get_ostn_pair(e_index, n_index + 1) } })
        AfterHi(lo, hi) ==
            IF hi.got.kind = "raise"
            THEN [ret |-> hi.got, cache |-> hi.cache, decoded |-> hi.decoded]
            ELSE IF hi.cache[hi_key] = None
            THEN [ret |-> None, cache |-> hi.cache, decoded |-> hi.decoded]
            ELSE [ret |-> Interpolate(lo.cache[lo_key].v, hi.cache[hi_key].v,
                                      easting.f, northing.f),
                  cache |-> hi.cache, decoded |-> hi.decoded]
        AfterLo(lo) ==
            IF lo.got.kind = "raise"
            THEN [ret |-> lo.got, cache |-> lo.cache, decoded |-> lo.decoded]
            ELSE IF lo.cache[lo_key] = None
            THEN [ret |-> None, cache |-> lo.cache, decoded |-> lo.decoded]
            ELSE The({ AfterHi(lo, hi) : hi \in { Hi(lo) } })
    IN  The({ AfterLo(lo) : lo \in { Lo } })

---------------------------------------------------------------------------
(* Geographic points, as the expressions that produce them.                *)

\* the keys of ellipsoid_models, lines 14-17
ellipsoid_models == {"WGS84", "OSGB36"}

\* float('nan') as a length, a latitude or a longitude
NaN == [nan |-> TRUE]

\* for a length or a latitude in radians (a record)
IsNaN(x) == DOMAIN x = {"nan"}

\* for a number of microdegrees (an integer, or NaN)
IsNaNDegrees(x) == ToString(x) = ToString(NaN)

\* a call that does not return: its `while True` has no pass that breaks
NoReturn == [kind |-> "no return"]

\* a latitude and longitude given in degrees (here: whole microdegrees, or NaN)
Degrees(lat, lon) == [fn |-> "degrees", lat |-> lat, lon |-> lon]

(* The footpoint-latitude iteration of reverse_project_onto_ellipsoid       *)
(* (convert.py:282-295), pass by pass.  A latitude phi is the triple        *)
(* [r, u, a]: whole radians, microradians and 10^-15 radians; a float that  *)
(* is not a number is NaN.  The series for M (lines 287-292) and the        *)
(* update of line 295 are tabulated, from the code, on the values the       *)
(* passes of the model's calls visit; NaN propagates through both.          *)

\* rows <<northing.k, northing.f, model, phi (r, u, a), M (k, f), the phi
\* that line 295 computes from them (r, u, a)>>
FootpointTable == {
    <<0, 500000000, "OSGB36", 0, 870975, 988712401, 100, 409131068, 0, 870990, 242616717>>,
    <<0, 500000000, "OSGB36", 0, 870990, 242616717, 100, 499924941, 0, 870990, 254390625>>,
    <<0, 500000000, "OSGB36", 0, 870990, 254390625, 100, 499999938, 0, 870990, 254400350>>,
    <<0, 500000000, "OSGB36", 0, 870990, 254400350, 100, 500000000, 0, 870990, 254400350>>,
    <<0, 950000000, "OSGB36", 0, 871046, 576720916, 100, 858759488, 0, 871060, 888912171>>,
    <<0, 950000000, "OSGB36", 0, 871060, 888912171, 100, 949924698, 0, 871060, 900724229>>,
    <<0, 950000000, "OSGB36", 0, 871060, 900724229, 100, 949999938, 0, 871060, 900733977>>,
    <<0, 950000000, "OSGB36", 0, 871060, 900733977, 100, 950000000, 0, 871060, 900733977>>,
    <<1, 750000000, "OSGB36", 0, 871172, 66513833, 101, 658099676, 0, 871186, 482204638>>,
    <<1, 750000000, "OSGB36", 0, 871186, 482204638, 101, 749924267, 0, 871186, 494084218>>,
    <<1, 750000000, "OSGB36", 0, 871186, 494084218, 101, 749999938, 0, 871186, 494094007>>,
    <<1, 750000000, "OSGB36", 0, 871186, 494094007, 101, 750000000, 0, 871186, 494094007>>,
    <<1, 777811000, "OSGB36", 0, 871176, 429009622, 101, 685887756, 0, 871190, 848295658>>,
    <<1, 777811000, "OSGB36", 0, 871190, 848295658, 101, 777735253, 0, 871190, 860177578>>,
    <<1, 777811000, "OSGB36", 0, 871190, 860177578, 101, 777810938, 0, 871190, 860187368>>,
    <<1, 777811000, "OSGB36", 0, 871190, 860187368, 101, 777811000, 0, 871190, 860187368>>,
    <<1, 800000000, "OSGB36", 0, 871179, 909625890, 101, 708058471, 0, 871194, 331780246>>,
    <<1, 800000000, "OSGB36", 0, 871194, 331780246, 101, 799924241, 0, 871194, 343664033>>,
    <<1, 800000000, "OSGB36", 0, 871194, 343664033, 101, 799999938, 0, 871194, 343673825>>,
    <<1, 800000000, "OSGB36", 0, 871194, 343673825, 101, 800000000, 0, 871194, 343673825>>,
    <<1, 822697729, "OSGB36", 0, 871183, 470042530, 101, 730737496, 0, 871197, 895130844>>,
    <<1, 822697729, "OSGB36", 0, 871197, 895130844, 101, 822621957, 0, 871197, 907016540>>,
    <<1, 822697729, "OSGB36", 0, 871197, 907016540, 101, 822697667, 0, 871197, 907026333>>,
    <<1, 822697729, "OSGB36", 0, 871197, 907026333, 101, 822697729, 0, 871197, 907026333>>,
    <<1, 850000000, "OSGB36", 0, 871187, 752737948, 101, 758017269, 0, 871202, 181355246>>,
    <<1, 850000000, "OSGB36", 0, 871202, 181355246, 101, 849924214, 0, 871202, 193243239>>,
    <<1, 850000000, "OSGB36", 0, 871202, 193243239, 101, 849999938, 0, 871202, 193253033>>,
    <<1, 850000000, "OSGB36", 0, 871202, 193253033, 101, 850000000, 0, 871202, 193253033>>,
    <<1, 864330202, "OSGB36", 0, 871190, 605550, 101, 772335663, 0, 871204, 431075041>>,
    <<1, 864330202, "OSGB36", 0, 871204, 431075041, 101, 864254408, 0, 871204, 442964239>>,
    <<1, 864330202, "OSGB36", 0, 871204, 442964239, 101, 864330140, 0, 871204, 442974034>>,
    <<1, 864330202, "OSGB36", 0, 871204, 442974034, 101, 864330202, 0, 871204, 442974034>>,
    <<1, 864330251, "OSGB36", 0, 871190, 613236, 101, 772335712, 0, 871204, 431082734>>,
    <<1, 864330251, "OSGB36", 0, 871204, 431082734, 101, 864254457, 0, 871204, 442971932>>,
    <<1, 864330251, "OSGB36", 0, 871204, 442971932, 101, 864330189, 0, 871204, 442981727>>,
    <<1, 864330251, "OSGB36", 0, 871204, 442981727, 101, 864330251, 0, 871204, 442981727>>,
    <<1, 897994691, "OSGB36", 0, 871195, 281292741, 101, 805972415, 0, 871209, 716113206>>,
    <<1, 897994691, "OSGB36", 0, 871209, 716113206, 101, 897918879, 0, 871209, 728005235>>,
    <<1, 897994691, "OSGB36", 0, 871209, 728005235, 101, 897994629, 0, 871209, 728015031>>,
    <<1, 897994691, "OSGB36", 0, 871209, 728015031, 101, 897994691, 0, 871209, 728015031>>,
    <<1, 975481821, "OSGB36", 0, 871207, 436097613, 101, 883395707, 0, 871221, 880931868>>,
    <<1, 975481821, "OSGB36", 0, 871221, 880931868, 101, 975405968, 0, 871221, 892830410>>,
    <<1, 975481821, "OSGB36", 0, 871221, 892830410, 101, 975481759, 0, 871221, 892840210>>,
    <<1, 975481821, "OSGB36", 0, 871221, 892840210, 101, 975481821, 0, 871221, 892840210>>,
    <<4, 13700000, "OSGB36", 0, 871527, 155569115, 103, 919938035, 0, 871541, 863281049>>,
    <<4, 13700000, "OSGB36", 0, 871541, 863281049, 104, 13623063, 0, 871541, 875349610>>,
    <<4, 13700000, "OSGB36", 0, 871541, 875349610, 104, 13699937, 0, 871541, 875359512>>,
    <<4, 13700000, "OSGB36", 0, 871541, 875359512, 104, 13700000, 0, 871541, 875359512>>,
    <<4, 85895485, "OSGB36", 0, 871538, 480314693, 103, 992074278, 0, 871553, 197319450>>,
    <<4, 85895485, "OSGB36", 0, 871553, 197319450, 104, 85818510, 0, 871553, 209393987>>,
    <<4, 85895485, "OSGB36", 0, 871553, 209393987, 104, 85895422, 0, 871553, 209403893>>,
    <<4, 85895485, "OSGB36", 0, 871553, 209403893, 104, 85895485, 0, 871553, 209403893>>,
    <<4, 200000000, "OSGB36", 0, 871556, 379004641, 104, 106085178, 0, 871571, 110694061>>,
    <<4, 200000000, "OSGB36", 0, 871571, 110694061, 104, 199922964, 0, 871571, 122778038>>,
    <<4, 200000000, "OSGB36", 0, 871571, 122778038, 104, 199999937, 0, 871571, 122787949>>,
    <<4, 200000000, "OSGB36", 0, 871571, 122787949, 104, 200000000, 0, 871571, 122787949>>,
    <<4, 200000400, "OSGB36", 0, 871556, 379067386, 104, 106085578, 0, 871571, 110756857>>,
    <<4, 200000400, "OSGB36", 0, 871571, 110756857, 104, 199923364, 0, 871571, 122840834>>,
    <<4, 200000400, "OSGB36", 0, 871571, 122840834, 104, 200000337, 0, 871571, 122850745>>,
    <<4, 200000400, "OSGB36", 0, 871571, 122850745, 104, 200000400, 0, 871571, 122850745>>,
    <<4, 272194081, "OSGB36", 0, 871567, 703529984, 104, 178220039, 0, 871582, 444508774>>,
    <<4, 272194081, "OSGB36", 0, 871582, 444508774, 104, 272117007, 0, 871582, 456598719>>,
    <<4, 272194081, "OSGB36", 0, 871582, 456598719, 104, 272194018, 0, 871582, 456608634>>,
    <<4, 272194081, "OSGB36", 0, 871582, 456608634, 104, 272194081, 0, 871582, 456608634>>,
    <<4, 272194481, "OSGB36", 0, 871567, 703592729, 104, 178220439, 0, 871582, 444571570>>,
    <<4, 272194481, "OSGB36", 0, 871582, 444571570, 104, 272117407, 0, 871582, 456661516>>,
    <<4, 272194481, "OSGB36", 0, 871582, 456661516, 104, 272194418, 0, 871582, 456671430>>,
    <<4, 272194481, "OSGB36", 0, 871582, 456671430, 104, 272194481, 0, 871582, 456671430>>,
    <<4, 500000000, "OSGB36", 0, 871603, 437676985, 104, 405839145, 0, 871618, 207959745>>,
    <<4, 500000000, "OSGB36", 0, 871618, 207959745, 104, 499922806, 0, 871618, 220068503>>,
    <<4, 500000000, "OSGB36", 0, 871618, 220068503, 104, 499999937, 0, 871618, 220078429>>,
    <<4, 500000000, "OSGB36", 0, 871618, 220078429, 104, 500000000, 0, 871618, 220078429>>,
    <<4, 572193083, "OSGB36", 0, 871614, 762045779, 104, 477973042, 0, 871629, 541612512>>,
    <<4, 572193083, "OSGB36", 0, 871629, 541612512, 104, 572115851, 0, 871629, 553727225>>,
    <<4, 572193083, "OSGB36", 0, 871629, 553727225, 104, 572193020, 0, 871629, 553737155>>,
    <<4, 572193083, "OSGB36", 0, 871629, 553737155, 104, 572193083, 0, 871629, 553737155>>,
    <<4, 800000000, "OSGB36", 0, 871650, 496349329, 104, 705593251, 0, 871665, 305203532>>,
    <<4, 800000000, "OSGB36", 0, 871665, 305203532, 104, 799922649, 0, 871665, 317337018>>,
    <<4, 800000000, "OSGB36", 0, 871665, 317337018, 104, 799999937, 0, 871665, 317346958>>,
    <<4, 800000000, "OSGB36", 0, 871665, 317346958, 104, 800000000, 0, 871665, 317346958>>,
    <<4, 872190767, "OSGB36", 0, 871661, 820354830, 104, 777724868, 0, 871676, 638487439>>,
    <<4, 872190767, "OSGB36", 0, 871676, 638487439, 104, 872113378, 0, 871676, 650626867>>,
    <<4, 872190767, "OSGB36", 0, 871676, 650626867, 104, 872190704, 0, 871676, 650636811>>,
    <<4, 872190767, "OSGB36", 0, 871676, 650636811, 104, 872190767, 0, 871676, 650636811>>,
    <<4, 950000000, "OSGB36", 0, 871674, 25685501, 104, 855470357, 0, 871688, 853817214>>,
    <<4, 950000000, "OSGB36", 0, 871688, 853817214, 104, 949922570, 0, 871688, 865963044>>,
    <<4, 950000000, "OSGB36", 0, 871688, 865963044, 104, 949999937, 0, 871688, 865972991>>,
    <<4, 950000000, "OSGB36", 0, 871688, 865972991, 104, 950000000, 0, 871688, 865972991>>,
    <<5, 500000000, "OSGB36", 0, 871760, 299918131, 105, 405020042, 0, 871775, 198687215>>,
    <<5, 500000000, "OSGB36", 0, 871775, 198687215, 105, 499922282, 0, 871775, 210878189>>,
    <<5, 500000000, "OSGB36", 0, 871775, 210878189, 105, 499999936, 0, 871775, 210888164>>,
    <<5, 500000000, "OSGB36", 0, 871775, 210888164, 105, 500000000, 0, 871775, 210888164>>,
    <<6, 500000000, "OSGB36", 0, 871917, 162159277, 106, 404202490, 0, 871932, 189171395>>,
    <<6, 500000000, "OSGB36", 0, 871932, 189171395, 106, 499921762, 0, 871932, 201443989>>,
    <<6, 500000000, "OSGB36", 0, 871932, 201443989, 106, 499999936, 0, 871932, 201454011>>,
    <<6, 500000000, "OSGB36", 0, 871932, 201454011, 106, 500000000, 0, 871932, 201454011>>,
    <<68, 361000000, "OSGB36", 0, 881620, 817258814, 168, 217640058, 0, 881643, 305020613>>,
    <<68, 361000000, "OSGB36", 0, 881643, 305020613, 168, 360896654, 0, 881643, 321231746>>,
    <<68, 361000000, "OSGB36", 0, 881643, 321231746, 168, 360999926, 0, 881643, 321243430>>,
    <<68, 361000000, "OSGB36", 0, 881643, 321243430, 168, 361000000, 0, 881643, 321243430>>,
    <<122, 350000000, "OSGB36", 0, 890089, 652796049, 222, 169964239, 0, 890117, 893608998>>,
    <<122, 350000000, "OSGB36", 0, 890117, 893608998, 222, 349885218, 0, 890117, 911613929>>,
    <<122, 350000000, "OSGB36", 0, 890117, 911613929, 222, 349999927, 0, 890117, 911625406>>,
    <<122, 350000000, "OSGB36", 0, 890117, 911625406, 222, 350000000, 0, 890117, 911625406>>,
    <<794, 790000000, "OSGB36", 0, 995570, 98232309, 894, 523150469, 0, 995611, 956847859>>,
    <<794, 790000000, "OSGB36", 0, 995611, 956847859, 894, 790098315, 0, 995611, 941425953>>,
    <<794, 790000000, "OSGB36", 0, 995611, 941425953, 894, 789999964, 0, 995611, 941431638>>,
    <<794, 790000000, "OSGB36", 0, 995611, 941431638, 894, 790000000, 0, 995611, 941431638>>,
    <<794, 847500000, "OSGB36", 0, 995579, 117811175, 894, 580671645, 0, 995620, 973105015>>,
    <<794, 847500000, "OSGB36", 0, 995620, 973105015, 894, 847598329, 0, 995620, 957680868>>,
    <<794, 847500000, "OSGB36", 0, 995620, 957680868, 894, 847499964, 0, 995620, 957686555>>,
    <<794, 847500000, "OSGB36", 0, 995620, 957686555, 894, 847500000, 0, 995620, 957686555>>,
    <<795, 500000000, "OSGB36", 0, 995681, 470423523, 895, 233412279, 0, 995723, 287970848>>,
    <<795, 500000000, "OSGB36", 0, 995723, 287970848, 895, 500098491, 0, 995723, 272521324>>,
    <<795, 500000000, "OSGB36", 0, 995723, 272521324, 895, 499999964, 0, 995723, 272527035>>,
    <<795, 500000000, "OSGB36", 0, 995723, 272527035, 895, 500000000, 0, 995723, 272527035>>,
    <<796, 500000000, "OSGB36", 0, 995838, 332664669, 896, 233782258, 0, 995880, 92176292>>,
    <<796, 500000000, "OSGB36", 0, 995880, 92176292, 896, 500098738, 0, 995880, 76688090>>,
    <<796, 500000000, "OSGB36", 0, 995880, 76688090, 896, 499999963, 0, 995880, 76693838>>,
    <<796, 500000000, "OSGB36", 0, 995880, 76693838, 896, 500000000, 0, 995880, 76693838>>,
    <<896, 60000000, "OSGB36", 1, 11455, 537393171, 995, 837791815, 1, 11490, 393467102>>,
    <<896, 60000000, "OSGB36", 1, 11490, 393467102, 996, 60114037, 1, 11490, 375578966>>,
    <<896, 60000000, "OSGB36", 1, 11490, 375578966, 996, 59999941, 1, 11490, 375588149>>,
    <<896, 60000000, "OSGB36", 1, 11490, 375588149, 996, 60000000, 1, 11490, 375588149>>,
    <<1004, 0, "OSGB36", 1, 28387, 247702478, 1103, 841392699, 1, 28412, 127199197>>,
    <<1004, 0, "OSGB36", 1, 28412, 127199197, 1104, 105488, 1, 28412, 110652116>>,
    <<1004, 0, "OSGB36", 1, 28412, 110652116, 1103, 999999930, 1, 28412, 110663123>>,
    <<1004, 0, "OSGB36", 1, 28412, 110663123, 1104, 0, 1, 28412, 110663123>>,
    <<73107460, 69000000, "OSGB36", 11468, 670928, 477442430, 72985514, 941134109, 11487, 815200, 755443584>>,
    <<73107460, 69000000, "OSGB36", 11487, 815200, 755443584, 73107362, 277479935, 11487, 846226, 776560797>>,
    <<73107460, 69000000, "OSGB36", 11487, 846226, 776560797, 73107560, 101544998, 11487, 846221, 671479725>>,
    <<73107460, 69000000, "OSGB36", 11487, 846221, 671479725, 73107560, 68999374, 11487, 846221, 671577950>>,
    <<73107460, 69000000, "OSGB36", 11487, 846221, 671577950, 73107560, 69000015, 11487, 846221, 671576131>>,
    <<73107460, 69000000, "OSGB36", 11487, 846221, 671576131, 73107560, 68999985, 11487, 846221, 671577950>>,
    <<0, 500000000, "WGS84", 0, 870974, 570952120, 100, 408801693, 0, 870988, 875236353>>,
    <<0, 500000000, "WGS84", 0, 870988, 875236353, 100, 499924395, 0, 870988, 887094845>>,
    <<0, 500000000, "WGS84", 0, 870988, 887094845, 100, 499999937, 0, 870988, 887104675>>,
    <<0, 500000000, "WGS84", 0, 870988, 887104675, 100, 500000000, 0, 870988, 887104675>>,
    <<0, 950000000, "WGS84", 0, 871045, 152612456, 100, 858428761, 0, 871059, 515390359>>,
    <<0, 950000000, "WGS84", 0, 871059, 515390359, 100, 949924150, 0, 871059, 527287277>>,
    <<0, 950000000, "WGS84", 0, 871059, 527287277, 100, 949999937, 0, 871059, 527297131>>,
    <<0, 950000000, "WGS84", 0, 871059, 527297131, 100, 950000000, 0, 871059, 527297131>>,
    <<1, 750000000, "WGS84", 0, 871170, 631119718, 101, 657766550, 0, 871185, 97764283>>,
    <<1, 750000000, "WGS84", 0, 871185, 97764283, 101, 749923716, 0, 871185, 109729212>>,
    <<1, 750000000, "WGS84", 0, 871185, 109729212, 101, 749999937, 0, 871185, 109739107>>,
    <<1, 750000000, "WGS84", 0, 871185, 109739107, 101, 750000000, 0, 871185, 109739107>>,
    <<1, 777811000, "WGS84", 0, 871174, 993223175, 101, 685554547, 0, 871189, 463475724>>,
    <<1, 777811000, "WGS84", 0, 871189, 463475724, 101, 777734701, 0, 871189, 475443010>>,
    <<1, 777811000, "WGS84", 0, 871189, 475443010, 101, 777810937, 0, 871189, 475452907>>,
    <<1, 777811000, "WGS84", 0, 871189, 475452907, 101, 777811000, 0, 871189, 475452907>>,
    <<1, 800000000, "WGS84", 0, 871178, 473526422, 101, 707725195, 0, 871192, 946657465>>,
    <<1, 800000000, "WGS84", 0, 871192, 946657465, 101, 799923689, 0, 871192, 958626631>>,
    <<1, 800000000, "WGS84", 0, 871192, 958626631, 101, 799999937, 0, 871192, 958636529>>,
    <<1, 800000000, "WGS84", 0, 871192, 958636529, 101, 800000000, 0, 871192, 958636529>>,
    <<1, 822697729, "WGS84", 0, 871182, 33622864, 101, 730404152, 0, 871196, 509698271>>,
    <<1, 822697729, "WGS84", 0, 871196, 509698271, 101, 822621406, 0, 871196, 521669361>>,
    <<1, 822697729, "WGS84", 0, 871196, 521669361, 101, 822697666, 0, 871196, 521679260>>,
    <<1, 822697729, "WGS84", 0, 871196, 521679260, 101, 822697729, 0, 871196, 521679260>>,
    <<1, 850000000, "WGS84", 0, 871186, 315933126, 101, 757683843, 0, 871200, 795550036>>,
    <<1, 850000000, "WGS84", 0, 871200, 795550036, 101, 849923662, 0, 871200, 807523439>>,
    <<1, 850000000, "WGS84", 0, 871200, 807523439, 101, 849999937, 0, 871200, 807533339>>,
    <<1, 850000000, "WGS84", 0, 871200, 807533339, 101, 850000000, 0, 871200, 807533339>>,
    <<1, 864330202, "WGS84", 0, 871188, 563598571, 101, 772002195, 0, 871203, 45074244>>,
    <<1, 864330202, "WGS84", 0, 871203, 45074244, 101, 864253857, 0, 871203, 57048861>>,
    <<1, 864330202, "WGS84", 0, 871203, 57048861, 101, 864330139, 0, 871203, 57058761>>,
    <<1, 864330202, "WGS84", 0, 871203, 57058761, 101, 864330202, 0, 871203, 57058761>>,
    <<1, 864330251, "WGS84", 0, 871188, 563606256, 101, 772002244, 0, 871203, 45081936>>,
    <<1, 864330251, "WGS84", 0, 871203, 45081936, 101, 864253906, 0, 871203, 57056553>>,
    <<1, 864330251, "WGS84", 0, 871203, 57056553, 101, 864330188, 0, 871203, 57066453>>,
    <<1, 864330251, "WGS84", 0, 871203, 57066453, 101, 864330251, 0, 871203, 57066453>>,
    <<1, 897994691, "WGS84", 0, 871193, 843810855, 101, 805638845, 0, 871208, 329652935>>,
    <<1, 897994691, "WGS84", 0, 871208, 329652935, 101, 897918328, 0, 871208, 341630403>>,
    <<1, 897994691, "WGS84", 0, 871208, 341630403, 101, 897994628, 0, 871208, 341640305>>,
    <<1, 897994691, "WGS84", 0, 871208, 341640305, 101, 897994691, 0, 871208, 341640305>>,
    <<1, 975481821, "WGS84", 0, 871205, 997522611, 101, 883061905, 0, 871220, 493414001>>,
    <<1, 975481821, "WGS84", 0, 871220, 493414001, 101, 975405416, 0, 871220, 505398029>>,
    <<1, 975481821, "WGS84", 0, 871220, 505398029, 101, 975481758, 0, 871220, 505407936>>,
    <<1, 975481821, "WGS84", 0, 871220, 505407936, 101, 975481821, 0, 871220, 505407936>>,
    <<4, 13700000, "WGS84", 0, 871525, 688240832, 103, 919598137, 0, 871540, 447942439>>,
    <<4, 13700000, "WGS84", 0, 871540, 447942439, 104, 13622503, 0, 871540, 460097717>>,
    <<4, 13700000, "WGS84", 0, 871540, 460097717, 104, 13699936, 0, 871540, 460107726>>,
    <<4, 13700000, "WGS84", 0, 871540, 460107726, 104, 13700000, 0, 871540, 460107726>>,
    <<4, 85895485, "WGS84", 0, 871537, 11967943, 103, 991734165, 0, 871551, 780995342>>,
    <<4, 85895485, "WGS84", 0, 871551, 780995342, 104, 85817950, 0, 871551, 793156639>>,
    <<4, 85895485, "WGS84", 0, 871551, 793156639, 104, 85895421, 0, 871551, 793166652>>,
    <<4, 85895485, "WGS84", 0, 871551, 793166652, 104, 85895485, 0, 871551, 793166652>>,
    <<4, 200000000, "WGS84", 0, 871554, 909048211, 104, 105744724, 0, 871569, 692812369>>,
    <<4, 200000000, "WGS84", 0, 871569, 692812369, 104, 199922404, 0, 871569, 704983175>>,
    <<4, 200000000, "WGS84", 0, 871569, 704983175, 104, 199999936, 0, 871569, 704993194>>,
    <<4, 200000000, "WGS84", 0, 871569, 704993194, 104, 200000000, 0, 871569, 704993194>>,
    <<4, 200000400, "WGS84", 0, 871554, 909110950, 104, 105745124, 0, 871569, 692875160>>,
    <<4, 200000400, "WGS84", 0, 871569, 692875160, 104, 199922804, 0, 871569, 705045966>>,
    <<4, 200000400, "WGS84", 0, 871569, 705045966, 104, 200000336, 0, 871569, 705055985>>,
    <<4, 200000400, "WGS84", 0, 871569, 705055985, 104, 200000400, 0, 871569, 705055985>>,
    <<4, 272194081, "WGS84", 0, 871566, 232555107, 104, 177879370, 0, 871581, 25641592>>,
    <<4, 272194081, "WGS84", 0, 871581, 25641592, 104, 272116447, 0, 871581, 37818409>>,
    <<4, 272194081, "WGS84", 0, 871581, 37818409, 104, 272194017, 0, 871581, 37828431>>,
    <<4, 272194081, "WGS84", 0, 871581, 37828431, 104, 272194081, 0, 871581, 37828431>>,
    <<4, 272194481, "WGS84", 0, 871566, 232617847, 104, 177879769, 0, 871581, 25704383>>,
    <<4, 272194481, "WGS84", 0, 871581, 25704383, 104, 272116847, 0, 871581, 37881200>>,
    <<4, 272194481, "WGS84", 0, 871581, 37881200, 104, 272194417, 0, 871581, 37891222>>,
    <<4, 272194481, "WGS84", 0, 871581, 37891222, 104, 272194481, 0, 871581, 37891222>>,
    <<4, 500000000, "WGS84", 0, 871601, 963488435, 104, 405497796, 0, 871616, 785982854>>,
    <<4, 500000000, "WGS84", 0, 871616, 785982854, 104, 499922245, 0, 871616, 798178621>>,
    <<4, 500000000, "WGS84", 0, 871616, 798178621, 104, 499999936, 0, 871616, 798188654>>,
    <<4, 500000000, "WGS84", 0, 871616, 798188654, 104, 500000000, 0, 871616, 798188654>>,
    <<4, 572193083, "WGS84", 0, 871613, 286838797, 104, 477631478, 0, 871628, 118650126>>,
    <<4, 572193083, "WGS84", 0, 871628, 118650126, 104, 572115290, 0, 871628, 130851891>>,
    <<4, 572193083, "WGS84", 0, 871628, 130851891, 104, 572193019, 0, 871628, 130861928>>,
    <<4, 572193083, "WGS84", 0, 871628, 130861928, 104, 572193083, 0, 871628, 130861928>>,
    <<4, 800000000, "WGS84", 0, 871649, 17928658, 104, 705251007, 0, 871663, 879131368>>,
    <<4, 800000000, "WGS84", 0, 871663, 879131368, 104, 799922086, 0, 871663, 891352040>>,
    <<4, 800000000, "WGS84", 0, 871663, 891352040, 104, 799999936, 0, 871663, 891362089>>,
    <<4, 800000000, "WGS84", 0, 871663, 891362089, 104, 800000000, 0, 871663, 891362089>>,
    <<4, 872190767, "WGS84", 0, 871660, 340915760, 104, 777382409, 0, 871675, 211429793>>,
    <<4, 872190767, "WGS84", 0, 871675, 211429793, 104, 872112815, 0, 871675, 223656451>>,
    <<4, 872190767, "WGS84", 0, 871675, 223656451, 104, 872190703, 0, 871675, 223666503>>,
    <<4, 872190767, "WGS84", 0, 871675, 223666503, 104, 872190767, 0, 871675, 223666503>>,
    <<4, 950000000, "WGS84", 0, 871672, 545148770, 104, 855127666, 0, 871687, 425697385>>,
    <<4, 950000000, "WGS84", 0, 871687, 425697385, 104, 949922007, 0, 871687, 437930491>>,
    <<4, 950000000, "WGS84", 0, 871687, 437930491, 104, 949999936, 0, 871687, 437940546>>,
    <<4, 950000000, "WGS84", 0, 871687, 437940546, 104, 950000000, 0, 871687, 437940546>>,
    <<5, 500000000, "WGS84", 0, 871758, 811622513, 105, 404675713, 0, 871773, 763059121>>,
    <<5, 500000000, "WGS84", 0, 871773, 763059121, 105, 499921717, 0, 871773, 775337699>>,
    <<5, 500000000, "WGS84", 0, 871773, 775337699, 105, 499999936, 0, 871773, 775347782>>,
    <<5, 500000000, "WGS84", 0, 871773, 775347782, 105, 500000000, 0, 871773, 775347782>>,
    <<6, 500000000, "WGS84", 0, 871915, 659756592, 106, 403855186, 0, 871930, 739891270>>,
    <<6, 500000000, "WGS84", 0, 871930, 739891270, 106, 499921193, 0, 871930, 752252059>>,
    <<6, 500000000, "WGS84", 0, 871930, 752252059, 106, 499999935, 0, 871930, 752262190>>,
    <<6, 500000000, "WGS84", 0, 871930, 752262190, 106, 500000000, 0, 871930, 752262190>>,
    <<68, 361000000, "WGS84", 0, 881618, 442178828, 168, 217119268, 0, 881641, 9603195>>,
    <<68, 361000000, "WGS84", 0, 881641, 9603195, 168, 360895899, 0, 881641, 25931251>>,
    <<68, 361000000, "WGS84", 0, 881641, 25931251, 168, 360999925, 0, 881641, 25943063>>,
    <<68, 361000000, "WGS84", 0, 881641, 25943063, 168, 361000000, 0, 881641, 25943063>>,
    <<122, 350000000, "WGS84", 0, 890086, 516089597, 222, 169308941, 0, 890114, 857145114>>,
    <<122, 350000000, "WGS84", 0, 890114, 857145114, 222, 349884377, 0, 890114, 875280410>>,
    <<122, 350000000, "WGS84", 0, 890114, 875280410, 222, 349999926, 0, 890114, 875292012>>,
    <<122, 350000000, "WGS84", 0, 890114, 875292012, 222, 350000000, 0, 890114, 875292012>>,
    <<794, 790000000, "WGS84", 0, 995557, 475369411, 894, 522115274, 0, 995599, 492588813>>,
    <<794, 790000000, "WGS84", 0, 995599, 492588813, 894, 790099013, 0, 995599, 477058869>>,
    <<794, 790000000, "WGS84", 0, 995599, 477058869, 894, 789999963, 0, 995599, 477064612>>,
    <<794, 790000000, "WGS84", 0, 995599, 477064612, 894, 790000000, 0, 995599, 477064612>>,
    <<794, 847500000, "WGS84", 0, 995566, 494137120, 894, 579636518, 0, 995608, 508024475>>,
    <<794, 847500000, "WGS84", 0, 995608, 508024475, 894, 847599027, 0, 995608, 492492272>>,
    <<794, 847500000, "WGS84", 0, 995608, 492492272, 894, 847499963, 0, 995608, 492498017>>,
    <<794, 847500000, "WGS84", 0, 995608, 492498017, 894, 847500000, 0, 995608, 492498017>>,
    <<795, 500000000, "WGS84", 0, 995668, 837544606, 895, 232377923, 0, 995710, 813567965>>,
    <<795, 500000000, "WGS84", 0, 995710, 813567965, 895, 500099190, 0, 995710, 798010185>>,
    <<795, 500000000, "WGS84", 0, 995710, 798010185, 895, 499999963, 0, 995710, 798015954>>,
    <<795, 500000000, "WGS84", 0, 995710, 798015954, 895, 500000000, 0, 995710, 798015954>>,
    <<796, 500000000, "WGS84", 0, 995825, 685678685, 896, 232749087, 0, 995867, 603485651>>,
    <<796, 500000000, "WGS84", 0, 995867, 603485651, 896, 500099439, 0, 995867, 587888889>>,
    <<796, 500000000, "WGS84", 0, 995867, 587888889, 896, 499999963, 0, 995867, 587894695>>,
    <<796, 500000000, "WGS84", 0, 995867, 587894695, 896, 500000000, 0, 995867, 587894695>>,
    <<896, 60000000, "WGS84", 1, 11441, 485907550, 995, 836901862, 1, 11476, 478434165>>,
    <<896, 60000000, "WGS84", 1, 11476, 478434165, 996, 60114871, 1, 11476, 460416889>>,
    <<896, 60000000, "WGS84", 1, 11476, 460416889, 996, 59999941, 1, 11476, 460426169>>,
    <<896, 60000000, "WGS84", 1, 11476, 460426169, 996, 60000000, 1, 11476, 460426169>>,
    <<1004, 0, "WGS84", 1, 28371, 673499994, 1103, 840713883, 1, 28396, 657230169>>,
    <<1004, 0, "WGS84", 1, 28396, 657230169, 1104, 106294, 1, 28396, 640558212>>,
    <<1004, 0, "WGS84", 1, 28396, 640558212, 1103, 999999929, 1, 28396, 640569339>>,
    <<1004, 0, "WGS84", 1, 28396, 640569339, 1104, 0, 1, 28396, 640569339>>,
    <<73107460, 69000000, "WGS84", 11467, 639595, 195229048, 72985053, 514938232, 11486, 854519, 612215881>>,
    <<73107460, 69000000, "WGS84", 11486, 854519, 612215881, 73107359, 726668716, 11486, 885942, 933055048>>,
    <<73107460, 69000000, "WGS84", 11486, 885942, 933055048, 73107560, 486490295, 11486, 885877, 450480620>>,
    <<73107460, 69000000, "WGS84", 11486, 885877, 450480620, 73107560, 68086502, 11486, 885877, 593760596>>,
    <<73107460, 69000000, "WGS84", 11486, 885877, 593760596, 73107560, 69001999, 11486, 885877, 593447730>>,
    <<73107460, 69000000, "WGS84", 11486, 885877, 593447730, 73107560, 69000000, 11486, 885877, 593447730>>
}

\* the northings, in metres, of the calls; the last one is 73 million km
FootNorthings == { 500, 950, 1750, 1800, 1850, 4200, 4500, 4950, 5500, 6500,
                   68361, 122350, 794790, 896060, 1004000 }

FarNorthing == Norm(73107460, 69000000)

Phi(r, u, a) == [r |-> r, u |-> u, a |-> a]

FootRows(northing, model) ==
    { row \in FootpointTable :
        /\ row[1] = Moved(northing, 0).k
        /\ row[2] = Moved(northing, 0).f
        /\ row[3] = model }

FootRow(northing, model, phi) ==
    CHOOSE row \in FootRows(northing, model) : Phi(row[4], row[5], row[6]) = phi

\* line 282: ORIGIN_PHI + dn/af, the phi of the row no other row leads to
InitialPhi(northing, model) ==
    IF IsNaN(northing) THEN NaN
    ELSE LET row == CHOOSE row \in FootRows(northing, model) :
                        \A o \in FootRows(northing, model) :
                            o = row \/ <<o[9], o[10], o[11]>> # <<row[4], row[5], row[6]>>
         IN  Phi(row[4], row[5], row[6])

\* lines 285-292
MeridionalArc(northing, model, phi) ==
    IF IsNaN(phi) THEN NaN
    ELSE LET row == FootRow(northing, model, phi) IN [k |-> row[7], f |-> row[8]]

\* line 279: dn = northing - ORIGIN_NORTHING, the origin 100 km south
NorthingFromOrigin(northing) ==
    IF IsNaN(northing) THEN NaN ELSE Norm(northing.k + 100, northing.f)

\* line 293: the outcomes of abs(dn - M) < 0.00001; a comparison with NaN is
\* false, and at a difference of 0.00001 m to the micrometre the doubles decide
WithinHundredthMM(dn, M) ==
    IF IsNaN(dn) \/ IsNaN(M) THEN {FALSE}
    ELSE IF Abs(dn.k - M.k) > 1 THEN {FALSE}
    ELSE IF Abs((dn.k - M.k) * D + (dn.f - M.f)) < 10 THEN {TRUE}
    ELSE IF Abs((dn.k - M.k) * D + (dn.f - M.f)) > 10 THEN {FALSE}
    ELSE BOOLEAN

\* line 295: phi + (dn - M)/af
NextPhi(northing, model, phi) ==
    IF IsNaN(phi) THEN NaN
    ELSE LET row == FootRow(northing, model, phi) IN Phi(row[9], row[10], row[11])

\* The loop of lines 284-295 from the latitude phi, after passes from the
\* latitudes tried: TRUE when a pass breaks at line 294, FALSE when a pass
\* starts from a latitude that an earlier pass started from (M and the next
\* phi are functions of phi, so the passes repeat and none breaks).
RECURSIVE FootpointFound(_, _, _, _)
FootpointFound(northing, model, phi, tried) ==
    IF phi \in tried THEN {FALSE}
    ELSE UNION { IF within THEN {TRUE}
                 ELSE FootpointFound(northing, model, NextPhi(northing, model, phi),
                                     tried \cup {phi}) :
                 within \in WithinHundredthMM(NorthingFromOrigin(northing),
                                              MeridionalArc(northing, model, phi)) }

\* the passes of the loop for this northing are tabulated (or it is NaN)
FootpointTabulated(northing, model) ==
    IF IsNaN(northing) THEN TRUE ELSE FootRows(northing, model) # {}

\* Whether the loop of lines 284-295 breaks: as the tabulated passes have it,
\* and open at a northing whose passes are not tabulated.
FootpointOutcomes(northing, model) ==
    IF FootpointTabulated(northing, model)
    THEN FootpointFound(northing, model, InitialPhi(northing, model), {})
    ELSE BOOLEAN

\* lines 297-327: the latitude and longitude that the closed-form series
\* gives from the footpoint latitude
ReverseProjected(easting, northing, model) ==
    [fn |-> "reverse_project_onto_ellipsoid",
     easting |-> easting, northing |-> northing, model |-> model]

\* lines 272-327, the outcomes of the call: line 274 raises KeyError for a
\* model that is not a key; the call does not return when no pass of the
\* loop of lines 284-295 breaks (a NaN northing, and the far northing whose
\* passes alternate between two latitudes), and returns the point of lines
\* 297-327 when one does.
reverse_project_onto_ellipsoid(easting, northing, model) ==
    IF model \notin ellipsoid_models THEN { Raise("KeyError") }
    ELSE { IF found THEN ReverseProjected(easting, northing, model) ELSE NoReturn :
           found \in FootpointOutcomes(northing, model) }

\* the point ll has a NaN coordinate
NaNPoint(ll) ==
    IF ll.fn = "degrees" THEN IsNaNDegrees(ll.lat) \/ IsNaNDegrees(ll.lon)
    ELSE IF ll.fn = "reverse_project_onto_ellipsoid" THEN IsNaN(ll.easting)
    ELSE FALSE

\* lines 464-469; the loop of cartesian_to_llh (lines 437-443) breaks when
\* abs(oldphi-phi) < 1E-12, which is false at every pass for a NaN coordinate
shift_ll_from_osgb36_to_wgs84(ll) ==
    IF NaNPoint(ll) THEN NoReturn
    ELSE [fn |-> "shift_ll_from_osgb36_to_wgs84", ll |-> ll]

---------------------------------------------------------------------------
(* grid_to_ll (convert.py:29-100)                                          *)

\* range(20) at line 81
MAX_ROUNDS == 20
\* 0.0001 m at line 91, in micrometres
TOLERANCE == 100

Event(fn, args, ret, decoded) == [fn |-> fn, args |-> args, ret |-> ret, decoded |-> decoded]

InitLoc == [os_ll |-> Unset, shifts |-> Unset, x |-> Unset, y |-> Unset,
            last_shifts |-> Unset, i |-> 0, in_ostn02_polygon |-> Unset]

Models == {"WGS84", "OSGB36", "ED50"}

\* the (easting, northing) arguments, in metres
GridInputs == {
    <<2300, 1850>>,
    <<1200, 4200>>, <<4500, 4500>>,
    <<300, 950>>, <<4050, 4500>>,
    <<500, 4500>>, <<-100, 500>>, <<500, 796500>>,
    <<197500, 795500>>, <<1000, 4950>>, <<197575, 794790>> }

\* The (easting, northing) arguments as lengths: the whole metres of
\* GridInputs; a point that is not a whole number of millimetres; a point
\* whose search has a difference of shifts at the tolerance; two points whose
\* search comes to a whole number of kilometres, at the first query and in
\* the loop; and a northing at which the reverse projection does not return.
GridPoints ==
    { <<Metres(p[1], 0), Metres(p[2], 0)>> : p \in GridInputs }
        \cup { <<Metres(1200, 400), Metres(4200, 400)>>,
               <<Metres(2300, 0), Metres(1777, 811000)>>,
               <<Metres(1095, 388659), Metres(4800, 0)>>,
               <<Metres(1095, 403110), Metres(4013, 700000)>>,
               <<Metres(400000, 0), FarNorthing>> }

\* The calls of grid_to_ll: every point with each model of ellipsoid_models,
\* and with a model that is not one of them a covered point, a point west of
\* the grid and a point whose search leaves coverage.
GridCalls ==
    (GridPoints \X ellipsoid_models)
        \cup ({ <<Metres(p[1], 0), Metres(p[2], 0)>> :
                  p \in { <<1200, 4200>>, <<-100, 500>>, <<300, 950>> } } \X {"ED50"})

Call_grid_to_ll(easting, northing, model) ==
    /\ pc = "idle"
    /\ ncalls < MaxCalls
    /\ call' = [fn |-> "grid_to_ll", a |-> easting, b |-> northing,
                model |-> model, rounding |-> 0]
    /\ pc' = "baseline"
    /\ loc' = InitLoc
    /\ log' = <<>>
    /\ cache0' = ostn_cache
    /\ UNCHANGED <<ostn_cache, result, ncalls>>
    /\ UNCHANGED <<threads, ostn_data>>

ReturnsBaseline_Never(model) == model = "OSGB"

\* line 71
ReturnsBaseline(model) == model = "OSGB36"

\* lines 68-72; a call whose reverse projection does not return stays in
\* line 68 (pc "no_return"), and no step of it follows
G_Baseline ==
    /\ pc = "baseline"
    /\ \E os_ll \in reverse_project_onto_ellipsoid(call.a, call.b, "OSGB36") :
           /\ loc' = [loc EXCEPT !.os_ll = os_ll]
           /\ log' = Append(log, Event("reverse_project_onto_ellipsoid",
                                       <<call.a, call.b, "OSGB36">>, os_ll, <<>>))
           /\ IF os_ll = NoReturn
              THEN /\ result' = result
                   /\ pc' = "no_return"
              ELSE IF ReturnsBaseline(call.model)
              THEN /\ result' = Return(os_ll)
                   /\ pc' = "done"
              ELSE /\ result' = result
                   /\ pc' = "first_query"
    /\ UNCHANGED <<ostn_cache, call, cache0, ncalls>>
    /\ UNCHANGED <<threads, ostn_data>>

\* lines 75-80
G_FirstQuery ==
    /\ pc = "first_query"
    /\ \E r \in { find_OSTN02_shifts_at(ostn_cache, call.a, call.b) } :
       LET shifts == r.ret
       IN  /\ ostn_cache' = r.cache
           /\ log' = Append(log, Event("find_OSTN02_shifts_at", <<call.a, call.b>>,
                                       shifts, r.decoded))
           /\ IF shifts.kind = "raise"
              THEN /\ result' = shifts
                   /\ pc' = "done"
                   /\ loc' = loc
              ELSE IF shifts = None
              THEN /\ result' = result
                   /\ pc' = "fallback"
                   /\ loc' = [loc EXCEPT !.shifts = shifts]
              ELSE /\ result' = result
                   /\ pc' = "loop"
                   /\ \E x \in LenSub(call.a, shifts.se), y \in LenSub(call.b, shifts.sn) :
                          loc' = [loc EXCEPT !.shifts = shifts,
                                            !.in_ostn02_polygon = TRUE,
                                            !.x = x,
                                            !.y = y,
                                            !.last_shifts = shifts]
    /\ UNCHANGED <<call, cache0, ncalls>>
    /\ UNCHANGED <<threads, ostn_data>>

\* The outcomes of abs(a - b) < 0.0001 for doubles a and b that the model holds
\* to the nearest micrometre.  The doubles of a search lie within a micrometre
\* or two of the model's values (the rounding of each interpolated shift, and
\* that of the point it was interpolated at), so a difference within 3
\* micrometres of the threshold decides nothing.
BelowTolerance(a, b) ==
    IF Abs(a - b) < TOLERANCE - 3 THEN {TRUE}
    ELSE IF Abs(a - b) > TOLERANCE + 3 THEN {FALSE}
    ELSE BOOLEAN

Converged_Either(shifts, last_shifts) ==
    { e \/ n : e \in BelowTolerance(shifts.se, last_shifts.se),
               n \in BelowTolerance(shifts.sn, last_shifts.sn) }

\* line 91: the outcomes of the test
Converged(shifts, last_shifts) ==
    { e /\ n : e \in BelowTolerance(shifts.se, last_shifts.se),
               n \in BelowTolerance(shifts.sn, last_shifts.sn) }

InRange_OneMore(i) == i <= MAX_ROUNDS

\* line 81: i is in range(20)
InRange(i) == i < MAX_ROUNDS

OffEdge_FlagKept(l, shifts) == [l EXCEPT !.shifts = shifts]

\* lines 84-87: the locals when a round's query returns None
OffEdge(l, shifts) == [l EXCEPT !.shifts = shifts, !.in_ostn02_polygon = FALSE]

\* one pass of the loop body, lines 81-94, with loop variable loc.i
G_Round ==
    /\ pc = "loop"
    /\ \E r \in { find_OSTN02_shifts_at(ostn_cache, loc.x, loc.y) } :
       \E converged \in (IF r.ret.kind = "shifts" THEN Converged(r.ret, loc.last_shifts)
                          ELSE {FALSE}) :
       LET shifts == r.ret
       IN  /\ ostn_cache' = r.cache
           /\ log' = Append(log, Event("find_OSTN02_shifts_at", <<loc.x, loc.y>>,
                                       shifts, r.decoded))
           /\ IF shifts.kind = "raise"
              THEN /\ result' = shifts
                   /\ pc' = "done"
                   /\ loc' = loc
              ELSE IF shifts = None
              THEN /\ result' = result
                   /\ pc' = "after_loop"
                   /\ loc' = OffEdge(loc, shifts)
              ELSE IF converged
              THEN /\ result' = result
                   /\ pc' = "after_loop"
                   /\ \E x \in LenSub(call.a, shifts.se), y \in LenSub(call.b, shifts.sn) :
                          loc' = [loc EXCEPT !.shifts = shifts,
                                            !.x = x,
                                            !.y = y]
              ELSE /\ result' = result
                   /\ pc' = IF InRange(loc.i + 1) THEN "loop" ELSE "after_loop"
                   /\ \E x \in LenSub(call.a, shifts.se), y \in LenSub(call.b, shifts.sn) :
                          loc' = [loc EXCEPT !.shifts = shifts,
                                            !.x = x,
                                            !.y = y,
                                            !.last_shifts = shifts,
                                            !.i = IF InRange(loc.i + 1) THEN loc.i + 1 ELSE loc.i]
    /\ UNCHANGED <<call, cache0, ncalls>>
    /\ UNCHANGED <<threads, ostn_data>>

\* lines 96-100
G_Finish ==
    /\ pc \in {"after_loop", "fallback"}
    /\ IF pc = "after_loop" /\ loc.in_ostn02_polygon
       THEN \E ll \in reverse_project_onto_ellipsoid(loc.x, loc.y, "WGS84") :
                /\ result' = IF ll = NoReturn THEN result ELSE Return(ll)
                /\ pc' = IF ll = NoReturn THEN "no_return" ELSE "done"
                /\ log' = Append(log, Event("reverse_project_onto_ellipsoid",
                                            <<loc.x, loc.y, "WGS84">>, ll, <<>>))
       ELSE LET ll == shift_ll_from_osgb36_to_wgs84(loc.os_ll)
            IN  /\ result' = IF ll = NoReturn THEN result ELSE Return(ll)
                /\ pc' = IF ll = NoReturn THEN "no_return" ELSE "done"
                /\ log' = Append(log, Event("shift_ll_from_osgb36_to_wgs84",
                                            <<loc.os_ll>>, ll, <<>>))
    /\ UNCHANGED <<ostn_cache, call, loc, cache0, ncalls>>
    /\ UNCHANGED <<threads, ostn_data>>

---------------------------------------------------------------------------
(* ll_to_grid (convert.py:103-223)                                         *)

\* lines 471-476, with the loop of cartesian_to_llh as in the other direction
shift_ll_from_wgs84_to_osgb36(ll) ==
    IF NaNPoint(ll) THEN NoReturn
    ELSE [fn |-> "shift_ll_from_wgs84_to_osgb36", ll |-> ll]

\* project_onto_grid(lat, lon, model) as the code computes it, for the
\* latitudes and longitudes the model uses:
\* <<lat, lon, model, east.k, east.f, north.k, north.f>>
ProjectionTable == {
    <<49807414, -7539779, "WGS84", 1, 499970904, 4, 500048273>>,
    <<49807414, -7539779, "OSGB36", 1, 538594046, 4, 490843421>>,
    <<-7539779, 49807414, "WGS84", 7019, 132936870, -6851, 120798749>>,
    <<-7539779, 49807414, "OSGB36", 7018, 508647611, -6851, 623811497>>,
    <<49784220, -7526003, "WGS84", 2, 300021338, 1, 850045758>>,
    <<49784220, -7526003, "OSGB36", 2, 338565023, 1, 841071911>>,
    <<-7526003, 49784220, "WGS84", 7015, 591755636, -6848, 107854705>>,
    <<-7526003, 49784220, "OSGB36", 7014, 967828381, -6848, 610617054>>,
    <<49806749, -7553611, "WGS84", 0, 500014326, 4, 499943529>>,
    <<49806749, -7553611, "OSGB36", 0, 538734343, 4, 490737944>>,
    <<-7553611, 49806749, "WGS84", 7018, 656496756, -6854, 746866712>>,
    <<-7553611, 49806749, "OSGB36", 7018, 32254568, -6853, 250065565>>,
    <<57005605, -5334713, "WGS84", 197, 499984121, 795, 499961048>>,
    <<57005605, -5334713, "OSGB36", 197, 519901625, 795, 420371078>>,
    <<-5334713, 57005605, "WGS84", 8377, 991649431, -6627, 227905910>>,
    <<-5334713, 57005605, "OSGB36", 8377, 226440956, -6627, 717514907>>,
    <<52000000, -2000000, "WGS84", 400, 0, 233, 582855777>>,
    <<52000000, -2000000, "OSGB36", 400, 0, 233, 553731330>>,
    <<-2000000, 52000000, "WGS84", 7497, 841288051, -5898, 616062408>>,
    <<-2000000, 52000000, "OSGB36", 7497, 168190267, -5897, 44487941>>,
    <<51500000, -2100000, "WGS84", 393, 58717915, 177, 978479791>>,
    <<51500000, -2100000, "OSGB36", 393, 59393044, 177, 954252815>>,
    <<-2100000, 51500000, "WGS84", 7407, 799258252, -5912, 221167012>>,
    <<-2100000, 51500000, "OSGB36", 7407, 135459054, -5912, 650640577>>
}

\* project_onto_grid(*shift_ll_from_wgs84_to_osgb36(lat, lon), model):
\* <<lat, lon, model, east.k, east.f, north.k, north.f>>
HelmertProjectionTable == {
    <<49807414, -7539779, "WGS84", 1, 546233355, 4, 427715197>>,
    <<49807414, -7539779, "OSGB36", 1, 584851962, 4, 418516670>>,
    <<-7539779, 49807414, "WGS84", 7019, 606308845, -6852, 181674689>>,
    <<-7539779, 49807414, "OSGB36", 7018, 981970875, -6852, 684763661>>,
    <<49784220, -7526003, "WGS84", 2, 346378404, 1, 777404854>>,
    <<49784220, -7526003, "OSGB36", 2, 384917546, 1, 768437358>>,
    <<-7526003, 49784220, "WGS84", 7016, 65173689, -6849, 169271318>>,
    <<-7526003, 49784220, "OSGB36", 7015, 441197723, -6849, 672109832>>,
    <<49806749, -7553611, "WGS84", 0, 546151766, 4, 427613955>>,
    <<49806749, -7553611, "OSGB36", 0, 584867260, 4, 418414694>>,
    <<-7553611, 49806749, "WGS84", 7019, 129595290, -6855, 807673148>>,
    <<-7553611, 49806749, "OSGB36", 7018, 505304419, -6854, 310948235>>,
    <<57005605, -5334713, "WGS84", 197, 573222298, 795, 519905430>>,
    <<57005605, -5334713, "OSGB36", 197, 593132606, 795, 440313666>>,
    <<-5334713, 57005605, "WGS84", 8378, 593254334, -6628, 139241120>>,
    <<-5334713, 57005605, "OSGB36", 8377, 827982279, -6628, 628942086>>,
    <<52000000, -2000000, "WGS84", 400, 96838259, 233, 535595280>>,
    <<52000000, -2000000, "OSGB36", 400, 96828830, 233, 506475003>>,
    <<-2000000, 52000000, "WGS84", 7498, 451584838, -5899, 683118152>>,
    <<-2000000, 52000000, "OSGB36", 7497, 778423838, -5898, 111618923>>,
    <<51500000, -2100000, "WGS84", 393, 154484147, 177, 924781921>>,
    <<51500000, -2100000, "OSGB36", 393, 155149961, 177, 900559667>>,
    <<-2100000, 51500000, "WGS84", 7408, 400196139, -5913, 297120156>>,
    <<-2100000, 51500000, "OSGB36", 7407, 736334835, -5913, 726668024>>
}

Point(east, north) == [kind |-> "point", east |-> east, north |-> north]

\* project_onto_grid at a point that grid_to_ll returned, a reverse projection
\* ("grid", the ellipsoid, easting and northing of the reverse projection) or
\* the shift_ll_from_osgb36_to_wgs84 of one ("helmert", the same of the reverse
\* projection inside it): rows <<tag, ellipsoid, easting (k, f), northing
\* (k, f), latitude, longitude (microdegrees, to the nearest), and four
\* projections (east k, f, north k, f each): of the point with 'WGS84' and
\* with 'OSGB36', and of the point shifted by shift_ll_from_wgs84_to_osgb36
\* with 'WGS84' and with 'OSGB36'>>
ReturnedProjectionTable == {
    <<"grid", "WGS84", 1, 0, 4, 85895485, 49803375, -7546270, 1, 1213, 4, 85894034, 1, 38672487, 4, 76724824, 1, 46200317, 4, 13515042, 1, 84867062, 4, 4352160>>,
    <<"grid", "OSGB36", 1, 0, 4, 85895485, 49803431, -7546814, 0, 961326178, 4, 95064072, 1, 1205, 4, 85894036, 1, 7520466, 4, 22686271, 1, 46190964, 4, 13522563>>,
    <<"grid", "WGS84", 1, 2847, 4, 872190767, 49810414, -7547077, 1, 4061, 4, 872189315, 1, 38675913, 4, 862951733, 1, 46204766, 4, 799900835, 1, 84872090, 4, 790669573>>,
    <<"grid", "OSGB36", 1, 2847, 4, 872190767, 49810471, -7547621, 0, 961328446, 4, 881427731, 1, 4052, 4, 872189317, 1, 7524335, 4, 809140451, 1, 46195413, 4, 799908356>>,
    <<"grid", "WGS84", 1, 104602037, 4, 272194081, 49805112, -7545014, 1, 104603249, 4, 272192633, 1, 143264526, 4, 263007301, 1, 150815809, 4, 199834718, 1, 189472556, 4, 190655712>>,
    <<"grid", "OSGB36", 1, 104602037, 4, 272194081, 49805168, -7545559, 1, 65938212, 4, 281378794, 1, 104603241, 4, 272192634, 1, 112145957, 4, 209022072, 1, 150806456, 4, 199842239>>,
    <<"grid", "WGS84", 1, 104602437, 4, 272194481, 49805112, -7545014, 1, 104603649, 4, 272193033, 1, 143264926, 4, 263007701, 1, 150816210, 4, 199835118, 1, 189472956, 4, 190656112>>,
    <<"grid", "OSGB36", 1, 104602437, 4, 272194481, 49805168, -7545559, 1, 65938612, 4, 281379194, 1, 104603641, 4, 272193034, 1, 112146357, 4, 209022472, 1, 150806857, 4, 199842639>>,
    <<"grid", "WGS84", 2, 2455179, 1, 975481821, 49785146, -7530246, 2, 2456382, 1, 975480399, 2, 41028986, 1, 966495426, 2, 48776507, 1, 902854976, 2, 87344571, 1, 893876352>>,
    <<"grid", "OSGB36", 2, 2455179, 1, 975481821, 49785201, -7530788, 1, 963880026, 1, 984466183, 2, 2456374, 1, 975480400, 2, 10195347, 1, 911841930, 2, 48767155, 1, 902862496>>,
    <<"grid", "WGS84", 2, 29942309, 1, 897994691, 49784471, -7529786, 2, 29943512, 1, 897993270, 2, 68513396, 1, 889015054, 2, 76266915, 1, 825358833, 2, 114832259, 1, 816386967>>,
    <<"grid", "OSGB36", 2, 29942309, 1, 897994691, 49784525, -7530329, 1, 991369876, 1, 906972296, 2, 29943504, 1, 897993271, 2, 37688475, 1, 834339027, 2, 76257563, 1, 825366352>>,
    <<"grid", "WGS84", 2, 41417749, 1, 864330251, 49784177, -7529593, 2, 41418952, 1, 864328830, 2, 79987700, 1, 855353550, 2, 87743721, 1, 791690478, 2, 126307928, 1, 782721548>>,
    <<"grid", "OSGB36", 2, 41417749, 1, 864330251, 49784232, -7530136, 2, 2846452, 1, 873304920, 2, 41418944, 1, 864328832, 2, 49166418, 1, 800667737, 2, 87734369, 1, 791697998>>,
    <<"grid", "WGS84", 2, 41417798, 1, 864330202, 49784177, -7529593, 2, 41419001, 1, 864328781, 2, 79987749, 1, 855353501, 2, 87743770, 1, 791690429, 2, 126307977, 1, 782721499>>,
    <<"grid", "OSGB36", 2, 41417798, 1, 864330202, 49784232, -7530136, 2, 2846501, 1, 873304871, 2, 41418993, 1, 864328783, 2, 49166467, 1, 800667688, 2, 87734418, 1, 791697949>>,
    <<"grid", "WGS84", 2, 55239271, 1, 822697729, 49783813, -7529360, 2, 55240474, 1, 822696308, 2, 93807852, 1, 813724658, 2, 101566886, 1, 750053117, 2, 140129723, 1, 741087816>>,
    <<"grid", "OSGB36", 2, 55239271, 1, 822697729, 49783868, -7529902, 2, 16669344, 1, 831668769, 2, 55240466, 1, 822696310, 2, 62990953, 1, 759026745, 2, 101557533, 1, 750060636>>,
    <<"grid", "WGS84", 4, 404605697, 4, 572193083, 49809980, -7499671, 4, 404606878, 4, 572191717, 4, 442948672, 4, 562982740, 4, 451232599, 4, 499856740, 4, 489569823, 4, 490654088>>,
    <<"grid", "OSGB36", 4, 404605697, 4, 572193083, 49810037, -7500210, 4, 366261354, 4, 581401524, 4, 404606870, 4, 572191718, 4, 412882301, 4, 509067742, 4, 451223247, 4, 499864260>>,
    <<"grid", "WGS84", 197, 482400000, 794, 847500000, 56999746, -5334478, 197, 482400081, 794, 847499968, 197, 502319086, 794, 767969513, 197, 555633736, 794, 867366245, 197, 575545546, 794, 787834003>>,
    <<"grid", "OSGB36", 197, 482400000, 794, 847500000, 57000450, -5334869, 197, 462479089, 794, 927037686, 197, 482400081, 794, 847499968, 197, 535710494, 794, 946913577, 197, 555624291, 794, 867374071>>,
    <<"helmert", "WGS84", -1, 900000000, 0, 500000000, 49771163, -7558510, -1, 853950704, 0, 572778109, -1, 892730407, 0, 563913486, -1, 899999407, 0, 499998790, -1, 938774595, 0, 491140529>>,
    <<"helmert", "OSGB36", -1, 900000000, 0, 500000000, 49771217, -7559055, -1, 815176574, 0, 581636016, -1, 853960039, 0, 572770594, -1, 861220447, 0, 508857853, -1, 899999399, 0, 499998792>>,
    <<"helmert", "WGS84", 0, 300000000, 0, 950000000, 49775457, -7553444, 0, 253899792, 1, 22727738, 0, 292641084, 1, 13824297, 0, 299999402, 0, 949998800, 0, 338736174, 0, 941101716>>,
    <<"helmert", "OSGB36", 0, 300000000, 0, 950000000, 49775511, -7553988, 0, 215164077, 1, 31624466, 0, 253909128, 1, 22720223, 0, 261258863, 0, 958896688, 0, 299999394, 0, 949998801>>,
    <<"helmert", "WGS84", 0, 500000000, 4, 500000000, 49807366, -7554324, 0, 453867583, 4, 572319875, 0, 492592124, 4, 563107962, 0, 499999401, 4, 499998794, 0, 538719420, 4, 490793204>>,
    <<"helmert", "OSGB36", 0, 500000000, 4, 500000000, 49807423, -7554869, 0, 415148620, 4, 581525100, 0, 453876919, 4, 572312358, 0, 461275616, 4, 509205215, 0, 499999393, 4, 499998796>>,
    <<"helmert", "WGS84", 0, 500000000, 796, 500000000, 56886335, -8562973, 0, 451783998, 796, 479065279, 0, 491074986, 796, 399283684, 0, 500000556, 796, 499995140, 0, 539286819, 796, 420211669>>,
    <<"helmert", "OSGB36", 0, 500000000, 796, 500000000, 56887013, -8563738, 0, 412498547, 796, 558846298, 0, 451793450, 796, 479057398, 0, 460710370, 796, 579785917, 0, 500000549, 796, 499995141>>,
    <<"helmert", "WGS84", 1, 0, 4, 950000000, 49811727, -7547870, 0, 953804161, 5, 22269847, 0, 992480600, 5, 13019180, 0, 999999396, 4, 949998806, 1, 38671307, 4, 940754458>>,
    <<"helmert", "OSGB36", 1, 0, 4, 950000000, 49811784, -7548414, 0, 915133304, 5, 31513830, 0, 953813497, 5, 22262330, 0, 961323724, 4, 959243989, 0, 999999388, 4, 949998808>>,
    <<"helmert", "WGS84", 1, 95388659, 4, 800000000, 49810447, -7546397, 1, 49181200, 4, 872287450, 1, 87848289, 4, 863049896, 1, 95388054, 4, 799998809, 1, 134050613, 4, 790767575>>,
    <<"helmert", "OSGB36", 1, 95388659, 4, 800000000, 49810504, -7546941, 1, 10519695, 4, 881518319, 1, 49190536, 4, 872279933, 1, 56721734, 4, 809230876, 1, 95388046, 4, 799998811>>,
    <<"helmert", "WGS84", 1, 95403110, 4, 13700000, 49803409, -7545590, 1, 49197250, 4, 86077955, 1, 87863757, 4, 76908766, 1, 95402504, 4, 13698811, 1, 134064482, 4, 4535949>>,
    <<"helmert", "OSGB36", 1, 95403110, 4, 13700000, 49803465, -7546134, 1, 10536326, 4, 95240454, 1, 49206586, 4, 86070438, 1, 56736766, 4, 22862500, 1, 95402497, 4, 13698813>>,
    <<"helmert", "WGS84", 1, 200000000, 4, 200000000, 49805146, -7544334, 1, 153780685, 4, 272356882, 1, 192437198, 4, 263171573, 1, 199999393, 4, 199998813, 1, 238651375, 4, 190819830>>,
    <<"helmert", "OSGB36", 1, 200000000, 4, 200000000, 49805202, -7544878, 1, 115129757, 4, 281535502, 1, 153790021, 4, 272349365, 1, 161343652, 4, 209178625, 1, 199999386, 4, 199998815>>,
    <<"helmert", "WGS84", 1, 200000400, 4, 200000400, 49805146, -7544334, 1, 153781085, 4, 272357282, 1, 192437598, 4, 263171973, 1, 199999793, 4, 199999213, 1, 238651775, 4, 190820230>>,
    <<"helmert", "OSGB36", 1, 200000400, 4, 200000400, 49805202, -7544878, 1, 115130157, 4, 281535902, 1, 153790421, 4, 272349765, 1, 161344052, 4, 209179025, 1, 199999786, 4, 199999215>>,
    <<"helmert", "WGS84", 4, 50000000, 4, 500000000, 49809716, -7505221, 4, 3423794, 4, 572332436, 4, 41804455, 4, 563123151, 4, 49999362, 4, 499998885, 4, 88375458, 4, 490795924>>,
    <<"helmert", "OSGB36", 4, 50000000, 4, 500000000, 49809774, -7505761, 3, 965048744, 4, 581535032, 4, 3433130, 4, 572324919, 4, 11619534, 4, 509202675, 4, 49999355, 4, 499998886>>
}

\* the reverse projection that the point ll was made from
ReturnedFrom(ll) ==
    IF ll.fn = "reverse_project_onto_ellipsoid" THEN ll ELSE ll.ll

\* the rows of the point ll, a value that grid_to_ll returned (the rows are
\* by the ellipsoid and by the easting and northing to the micrometre)
ReturnedRows(ll) ==
    LET tag == IF ll.fn = "reverse_project_onto_ellipsoid" THEN "grid" ELSE "helmert"
        at  == ReturnedFrom(ll)
    IN  { r \in ReturnedProjectionTable :
            /\ r[1] = tag
            /\ r[2] = at.model
            /\ Moved(at.easting, 0) = [k |-> r[3], f |-> r[4]]
            /\ Moved(at.northing, 0) = [k |-> r[5], f |-> r[6]] }

ReturnedRow(ll) == CHOOSE r \in ReturnedRows(ll) : TRUE

\* the projection of row r with the ellipsoid model, of the point itself or
\* of the point shifted by shift_ll_from_wgs84_to_osgb36
ReturnedProjection(r, shifted, model) ==
    LET i == 9 + (IF shifted THEN 8 ELSE 0) + (IF model = "OSGB36" THEN 4 ELSE 0)
    IN  Point([k |-> r[i], f |-> r[i + 1]], [k |-> r[i + 2], f |-> r[i + 3]])

\* lines 225-270; line 227 raises KeyError for a model that is not a key
project_onto_grid(ll, model) ==
    IF model \notin ellipsoid_models THEN Raise("KeyError")
    ELSE IF ll.fn = "degrees"
    THEN LET r == CHOOSE r \in ProjectionTable :
                      r[1] = ll.lat /\ r[2] = ll.lon /\ r[3] = model
         IN  Point([k |-> r[4], f |-> r[5]], [k |-> r[6], f |-> r[7]])
    ELSE IF ll.fn = "shift_ll_from_wgs84_to_osgb36" /\ ll.ll.fn = "degrees"
    THEN LET r == CHOOSE r \in HelmertProjectionTable :
                      r[1] = ll.ll.lat /\ r[2] = ll.ll.lon /\ r[3] = model
         IN  Point([k |-> r[4], f |-> r[5]], [k |-> r[6], f |-> r[7]])
    ELSE IF ll.fn = "shift_ll_from_wgs84_to_osgb36"
    THEN ReturnedProjection(ReturnedRow(ll.ll), TRUE, model)
    ELSE ReturnedProjection(ReturnedRow(ll), FALSE, model)

\* Where the double of a coordinate lies against the decimal the model holds
\* for it, for each of the two coordinates of a result, in half-micrometres:
\* within one half below or above for a projection, which the tables hold
\* to the nearest micrometre, and within three halves for a projection plus
\* an interpolated shift, each of them to the nearest micrometre.
Aboves == {-3, -1, 1, 3} \X {-3, -1, 1, 3}

\* for a coordinate that is a projection alone
Nearest(above) == << IF above[1] > 0 THEN 1 ELSE -1, IF above[2] > 0 THEN 1 ELSE -1 >>

Round_Not(x, ndigits, above) == x

\* Python's round(x, ndigits) on a length (0 <= ndigits): to the nearest
\* multiple of 10^-ndigits metres.  round() rounds the double, which lies
\* `above` half-micrometres from the decimal x at most: where that reaches
\* across the middle between two multiples, the double is on either side of
\* it (or on it, and round() goes to the even multiple, one of the two).
\* To six places and more the multiples are a micrometre apart or less, and
\* the result, to the micrometre the model holds, is x or the micrometre
\* beside it on the side of the double.
Round(x, ndigits, above) ==
    IF ndigits >= 6
    THEN Moved(x, IF above > 1 THEN 1 ELSE IF above < -1 THEN -1 ELSE 0)
    ELSE LET step == 10 ^ (6 - ndigits)
             q == x.f \div step
             r == x.f % step
             up == IF 2 * r + above > step THEN 1 ELSE 0
         IN  Norm(x.k, (q + up) * step)

SwapArgs_None(lat, lon) == <<lat, lon>>

\* lines 200-201: the larger argument is the latitude
SwapArgs(lat, lon) == IF lat < lon THEN <<lon, lat>> ELSE <<lat, lon>>

KnownModel_Any(model) == TRUE

\* line 203
KnownModel(model) == model \in ellipsoid_models

PathRounding_Always(rounding, default) == default

\* lines 213-214, 218-219, 221-222: a negative rounding takes the path's default
PathRounding(rounding, default) == IF 0 > rounding THEN default ELSE rounding

NeedsCorrection_Always(model) == TRUE

\* line 208
NeedsCorrection(model) == model = "WGS84"

AddShifts_Subtracted(p, shifts) ==
    Point(Moved(p.east, -shifts.se), Moved(p.north, -shifts.sn))

\* lines 211-212
AddShifts(p, shifts) ==
    Point(LenAdd(p.east, shifts.se), LenAdd(p.north, shifts.sn))

\* The whole function on cache c, as the set of its outcomes, one for each
\* place of Aboves that the doubles of the result can have: ret (the return
\* value or the exception), the cache as the call leaves it, the calls made,
\* and the locals at the end.
ll_to_grid_at(c, ll, model, rounding0) ==
    LET osgb == shift_ll_from_wgs84_to_osgb36(ll)
        Ev1(p) == Event("project_onto_grid", <<ll, model>>, p, <<>>)
        Ev2(p, r) == Event("find_OSTN02_shifts_at", <<p.east, p.north>>, r.ret, r.decoded)
        Ev3 == Event("shift_ll_from_wgs84_to_osgb36", <<ll>>, osgb, <<>>)
        Ev4(p2) == Event("project_onto_grid", <<osgb, "OSGB36">>, p2, <<>>)
        Out(pt, rounding, cache, events, aboves) ==
            { [ret |-> Return(<<Round(pt.east, rounding, ab[1]),
                                Round(pt.north, rounding, ab[2])>>),
               cache |-> cache, log |-> events,
               loc |-> [easting |-> pt.east, northing |-> pt.north, rounding |-> rounding]] :
              ab \in aboves }
        Fail(exc, cache, events) ==
            { [ret |-> exc, cache |-> cache, log |-> events, loc |-> Unset] }
        \* lines 210-219, after the query r at the projected point p
        Corrected(p, r) ==
            IF r.ret.kind = "raise" THEN Fail(r.ret, r.cache, <<Ev1(p), Ev2(p, r)>>)
            ELSE IF r.ret # None
            THEN The({ Out(pt, PathRounding(PathRounding(rounding0, 3), 3), r.cache,
                           <<Ev1(p), Ev2(p, r)>>, Aboves) :
                       pt \in { AddShifts(p, r.ret) } })
            ELSE The({ Out(p2, PathRounding(PathRounding(rounding0, 0), 3), r.cache,
                           <<Ev1(p), Ev2(p, r), Ev3, Ev4(p2)>>,
                           { Nearest(ab) : ab \in Aboves }) :
                       p2 \in { project_onto_grid(osgb, "OSGB36") } })
        \* lines 208-223, after the projection p
        Projected(p) ==
            IF p.kind = "raise" THEN Fail(p, c, <<Ev1(p)>>)
            ELSE IF NeedsCorrection(model)
            THEN The({ Corrected(p, r) : r \in { find_OSTN02_shifts_at(c, p.east, p.north) } })
            ELSE Out(p, PathRounding(rounding0, 3), c, <<Ev1(p)>>,
                     { Nearest(ab) : ab \in Aboves })
    IN  IF ~KnownModel(model) THEN Fail(Raise("KeyError"), c, <<>>)
        ELSE The({ Projected(p) : p \in { project_onto_grid(ll, model) } })

\* lines 200-201 and then the rest, for (lat, lon) in microdegrees
ll_to_grid(c, lat0, lon0, model, rounding0) ==
    LET sw == SwapArgs(lat0, lon0)
    IN  ll_to_grid_at(c, Degrees(sw[1], sw[2]), model, rounding0)

\* the (lat, lon) arguments, in microdegrees, in the one order or the other
LLInputs == {
    <<49807414, -7539779>>, <<-7539779, 49807414>>,
    <<49784220, -7526003>>, <<-7553611, 49806749>>,
    <<57005605, -5334713>>, <<52000000, -2000000>>, <<-2100000, 51500000>> }

Roundings == {-1, 0, 4, 6}

Call_ll_to_grid(lat, lon, model, rounding) ==
    /\ pc = "idle"
    /\ ncalls < MaxCalls
    /\ \E o \in ll_to_grid(ostn_cache, lat, lon, model, rounding) :
           /\ ostn_cache' = o.cache
           /\ result' = o.ret
           /\ log' = o.log
           /\ loc' = o.loc
    /\ call' = [fn |-> "ll_to_grid", a |-> lat, b |-> lon, model |-> model,
                rounding |-> rounding]
    /\ pc' = "done"
    /\ cache0' = ostn_cache
    /\ UNCHANGED ncalls
    /\ UNCHANGED <<threads, ostn_data>>

---------------------------------------------------------------------------
(* ll_to_grid(lat, lon, 'WGS84') on the (lat, lon) that grid_to_ll returned *)

\* the point ll is one of ReturnedProjectionTable
Tabulated(ll) == ReturnedRows(ll) # {}

\* lines 103-223 with the default rounding, on the result of the grid_to_ll
\* call that has just returned; the latitude is above the longitude at every
\* point of the table, so lines 200-201 leave the pair as it is
RoundTrip ==
    /\ pc = "done"
    /\ call.fn = "grid_to_ll"
    /\ call.model = "WGS84"
    /\ result.kind = "return"
    /\ Tabulated(result.value)
    /\ \E r \in { ReturnedRow(result.value) } :
           SwapArgs(r[7], r[8]) = <<r[7], r[8]>>
    /\ \E o \in ll_to_grid_at(ostn_cache, result.value, "WGS84", -1) :
           /\ ostn_cache' = o.cache
           /\ result' = o.ret
           /\ log' = log \o o.log
           /\ loc' = [search |-> loc, ll |-> result.value, back |-> o.loc]
    /\ call' = [call EXCEPT !.fn = "round_trip", !.rounding = -1]
    /\ pc' = "done"
    /\ UNCHANGED <<cache0, ncalls>>
    /\ UNCHANGED <<threads, ostn_data>>

---------------------------------------------------------------------------
(* find_OSTN02_shifts_at called on its own                                 *)

\* (easting, northing) in metres
FindInputs == { <<1500, 4500>>, <<702500, 3500>>, <<2000, 1000>>, <<197500, 795500>>,
                <<1000, 4000>>, <<2000, 4000>>, <<5000, 3000>>, <<0, 4500>>,
                <<-100, 500>>, <<500, 796500>>, <<4000, 5000>>, <<0, 0>>, <<4000, 1000>>,
                <<702000, 3000>> }

Call_find_OSTN02_shifts_at(easting, northing) ==
    /\ pc = "idle"
    /\ ncalls < MaxCalls
    /\ \E e \in { Metres(easting, 0) }, n \in { Metres(northing, 0) } :
       \E r \in { find_OSTN02_shifts_at(ostn_cache, e, n) } :
           /\ ostn_cache' = r.cache
           /\ result' = IF r.ret.kind = "raise" THEN r.ret ELSE Return(r.ret)
           /\ log' = << Event("find_OSTN02_shifts_at", <<e, n>>, r.ret, r.decoded) >>
           /\ call' = [fn |-> "find_OSTN02_shifts_at", a |-> e, b |-> n,
                       model |-> "", rounding |-> 0]
    /\ loc' = Unset
    /\ pc' = "done"
    /\ cache0' = ostn_cache
    /\ UNCHANGED ncalls
    /\ UNCHANGED <<threads, ostn_data>>

---------------------------------------------------------------------------

\* the caller takes the result; the cache stays
Done ==
    /\ pc = "done"
    /\ pc' = "idle"
    /\ ncalls' = ncalls + 1
    /\ call' = Unset
    /\ loc' = Unset
    /\ result' = Unset
    /\ log' = <<>>
    /\ cache0' = ostn_cache
    /\ UNCHANGED ostn_cache
    /\ UNCHANGED <<threads, ostn_data>>

---------------------------------------------------------------------------

Init ==
    /\ ostn_data \in OstnDataAtImport
    /\ ostn_cache = <<>>
    /\ pc = "idle"
    /\ call = Unset
    /\ loc = Unset
    /\ result = Unset
    /\ log = <<>>
    /\ cache0 = <<>>
    /\ ncalls = 0
    /\ threads = <<>>

Next ==
    \/ \E g \in GridCalls : Call_grid_to_ll(g[1][1], g[1][2], g[2])
    \/ \E p \in LLInputs, m \in Models, r \in Roundings : Call_ll_to_grid(p[1], p[2], m, r)
    \/ \E p \in FindInputs : Call_find_OSTN02_shifts_at(p[1], p[2])
    \/ G_Baseline
    \/ G_FirstQuery
    \/ G_Round
    \/ G_Finish
    \/ RoundTrip
    \/ Done

Spec == Init /\ [][Next]_vars

---------------------------------------------------------------------------
(* Concurrent callers of find_OSTN02_shifts_at (convert.py:358-407) on the  *)
(* one ostn_cache.  A thread can be preempted between any two operations on *)
(* the dict: the membership test, the decode, the store and the read of     *)
(* lines 380-383 and 389-392 are separate steps.                            *)

\* number of threads
MaxThreads == 2

Threads == 1..MaxThreads

\* (easting, northing) in metres
ThreadInputs == { <<1500, 4500>>, <<702500, 3500>>, <<1500, 3500>>, <<197500, 795500>> }

\* a thread that has not called yet
IdleThread ==
    [pc |-> "idle", easting |-> Unset, northing |-> Unset, got |-> Unset,
     lo_shifts |-> Unset, hi_shifts |-> Unset, ret |-> Unset]

lo_key(th) == th.easting.k + th.northing.k * KEY_STRIDE

hi_key(th) == lo_key(th) + KEY_STRIDE

\* thread t's record becomes th; the sequential caller's state stays
SetThread(t, th) ==
    /\ threads' = [threads EXCEPT ![t] = th]
    /\ UNCHANGED <<pc, call, loc, result, log, cache0, ncalls, ostn_data>>

\* return or raise
Leave(th, ret) == [th EXCEPT !.pc = "done", !.ret = ret]

\* lines 366-378: the call and the tests on its arguments
T_Call(t, easting, northing) ==
    /\ threads[t].pc = "idle"
    /\ \E e \in { Metres(easting, 0) }, n \in { Metres(northing, 0) } :
       LET th == [threads[t] EXCEPT !.easting = e, !.northing = n]
       IN  IF e.k < 0 \/ n.k < 0 \/ n.k >= Len(ostn_data)
           THEN SetThread(t, Leave(th, None))
           ELSE SetThread(t, [th EXCEPT !.pc = "lo_test"])
    /\ UNCHANGED ostn_cache

\* line 380: lo_key not in ostn_cache
T_LoTest(t) ==
    /\ threads[t].pc = "lo_test"
    /\ SetThread(t, [threads[t] EXCEPT !.pc =
                        IF lo_key(threads[t]) \in DOMAIN ostn_cache
                        THEN "lo_read" ELSE "lo_decode"])
    /\ UNCHANGED ostn_cache

\* line 381, right-hand side: get_ostn_pair(e_index, n_index)
T_LoDecode(t) ==
    /\ threads[t].pc = "lo_decode"
    /\ \E g \in { get_ostn_pair(threads[t].easting.k, threads[t].northing.k) } :
          IF g.kind = "raise"
          THEN SetThread(t, Leave(threads[t], g))
          ELSE SetThread(t, [threads[t] EXCEPT !.pc = "lo_store", !.got = g])
    /\ UNCHANGED ostn_cache

\* line 381, the store: ostn_cache[lo_key] = ...
T_LoStore(t) ==
    /\ threads[t].pc = "lo_store"
    /\ ostn_cache' = CachePut(ostn_cache, lo_key(threads[t]), threads[t].got)
    /\ SetThread(t, [threads[t] EXCEPT !.pc = "lo_read", !.got = Unset])

\* lines 383-385
T_LoRead(t) ==
    /\ threads[t].pc = "lo_read"
    /\ \E v \in { ostn_cache[lo_key(threads[t])] } :
          IF v = None
          THEN SetThread(t, Leave(threads[t], None))
          ELSE SetThread(t, [threads[t] EXCEPT !.pc = "hi_test", !.lo_shifts = v])
    /\ UNCHANGED ostn_cache

\* line 389: hi_key not in ostn_cache
T_HiTest(t) ==
    /\ threads[t].pc = "hi_test"
    /\ SetThread(t, [threads[t] EXCEPT !.pc =
                        IF hi_key(threads[t]) \in DOMAIN ostn_cache
                        THEN "hi_read" ELSE "hi_decode"])
    /\ UNCHANGED ostn_cache

\* line 390, right-hand side: get_ostn_pair(e_index, n_index+1)
T_HiDecode(t) ==
    /\ threads[t].pc = "hi_decode"
    /\ \E g \in { get_ostn_pair(threads[t].easting.k, threads[t].northing.k + 1) } :
          IF g.kind = "raise"
          THEN SetThread(t, Leave(threads[t], g))
          ELSE SetThread(t, [threads[t] EXCEPT !.pc = "hi_store", !.got = g])
    /\ UNCHANGED ostn_cache

\* line 390, the store: ostn_cache[hi_key] = ...
T_HiStore(t) ==
    /\ threads[t].pc = "hi_store"
    /\ ostn_cache' = CachePut(ostn_cache, hi_key(threads[t]), threads[t].got)
    /\ SetThread(t, [threads[t] EXCEPT !.pc = "hi_read", !.got = Unset])

\* lines 392-407
T_HiRead(t) ==
    /\ threads[t].pc = "hi_read"
    /\ \E v \in { ostn_cache[hi_key(threads[t])] } :
          IF v = None
          THEN SetThread(t, Leave(threads[t], None))
          ELSE SetThread(t, Leave([threads[t] EXCEPT !.hi_shifts = v],
                                  Interpolate(threads[t].lo_shifts.v, v.v,
                                              threads[t].easting.f,
                                              threads[t].northing.f)))
    /\ UNCHANGED ostn_cache

ThreadsInit ==
    /\ ostn_data \in OstnDataAtImport
    /\ ostn_cache = <<>>
    /\ pc = "idle"
    /\ call = Unset
    /\ loc = Unset
    /\ result = Unset
    /\ log = <<>>
    /\ cache0 = <<>>
    /\ ncalls = 0
    /\ threads = [t \in Threads |-> IdleThread]

ThreadsNext ==
    \/ \E t \in Threads, p \in ThreadInputs : T_Call(t, p[1], p[2])
    \/ \E t \in Threads : T_LoTest(t)
    \/ \E t \in Threads : T_LoDecode(t)
    \/ \E t \in Threads : T_LoStore(t)
    \/ \E t \in Threads : T_LoRead(t)
    \/ \E t \in Threads : T_HiTest(t)
    \/ \E t \in Threads : T_HiDecode(t)
    \/ \E t \in Threads : T_HiStore(t)
    \/ \E t \in Threads : T_HiRead(t)

ThreadsSpec == ThreadsInit /\ [][ThreadsNext]_vars

---------------------------------------------------------------------------
(* reverse_project_onto_ellipsoid called on its own, pass by pass           *)

\* lines 272-282
F_Call(easting, northing, model) ==
    /\ pc = "idle"
    /\ call' = [fn |-> "reverse_project_onto_ellipsoid", a |-> easting, b |-> northing,
                model |-> model, rounding |-> 0]
    /\ loc' = [dn |-> NorthingFromOrigin(northing), phi |-> InitialPhi(northing, model),
               M |-> Unset, tried |-> {}]
    /\ pc' = "footpoint"
    /\ UNCHANGED <<ostn_cache, result, log, cache0, ncalls, threads, ostn_data>>

\* one pass of `while True`, lines 284-295; tried is history, the phi of past passes
F_Pass ==
    /\ pc = "footpoint"
    /\ \E M \in { MeridionalArc(call.b, call.model, loc.phi) } :
       \E within \in WithinHundredthMM(loc.dn, M) :
          IF within
          THEN /\ pc' = "footpoint_found"
               /\ loc' = [loc EXCEPT !.M = M, !.tried = loc.tried \cup {loc.phi}]
          ELSE /\ pc' = "footpoint"
               /\ loc' = [loc EXCEPT !.M = M, !.tried = loc.tried \cup {loc.phi},
                                     !.phi = NextPhi(call.b, call.model, loc.phi)]
    /\ UNCHANGED <<ostn_cache, call, result, log, cache0, ncalls, threads, ostn_data>>

\* lines 297-327: the closed-form series from the footpoint latitude
F_Return ==
    /\ pc = "footpoint_found"
    /\ result' = Return(ReverseProjected(call.a, call.b, call.model))
    /\ pc' = "done"
    /\ UNCHANGED <<ostn_cache, call, loc, log, cache0, ncalls, threads, ostn_data>>

\* the caller takes the result
F_Done ==
    /\ pc = "done"
    /\ pc' = "idle"
    /\ call' = Unset
    /\ loc' = Unset
    /\ result' = Unset
    /\ UNCHANGED <<ostn_cache, log, cache0, ncalls, threads, ostn_data>>

FootNext ==
    \/ \E n \in FootNorthings, m \in ellipsoid_models :
          F_Call(Metres(400000, 0), Metres(n, 0), m)
    \/ \E n \in {FarNorthing, NaN}, m \in ellipsoid_models :
          F_Call(Metres(400000, 0), n, m)
    \/ F_Pass
    \/ F_Return
    \/ F_Done

FootSpec == Init /\ [][FootNext]_vars

---------------------------------------------------------------------------
(* Properties                                                              *)

\* the interpolator queries the running call has made so far
Queries == SelectSeq(log, LAMBDA e : e.fn = "find_OSTN02_shifts_at")

Running(fn) == pc # "idle" /\ call.fn = fn
Finished(fn) == pc = "done" /\ call.fn = fn
Returned(fn) == Finished(fn) /\ result.kind = "return"

\* the Helmert shift of the OSGB36 reverse projection of the call's arguments
HelmertOfBaseline ==
    shift_ll_from_osgb36_to_wgs84(ReverseProjected(call.a, call.b, "OSGB36"))

(* C1: in grid_to_ll with a model other than 'OSGB36', once a query of the  *)
(* interpolator has returned None (the first query or a later one) no       *)
(* further query is made, the search has stopped, and the call returns the  *)
(* Helmert shift of the OSGB36 reverse projection of the original           *)
(* (easting, northing), never a WGS84 reverse projection.                   *)
C1_UncoveredReturnsHelmert ==
    (Running("grid_to_ll") /\ call.model # "OSGB36") =>
        \A i \in 1..Len(log) :
            (log[i].fn = "find_OSTN02_shifts_at" /\ log[i].ret = None) =>
                /\ \A j \in (i + 1)..Len(log) : log[j].fn # "find_OSTN02_shifts_at"
                /\ pc \in {"after_loop", "fallback", "done"}
                /\ pc = "done" => result = Return(HelmertOfBaseline)

\* a call that was shifted off the edge in a later round has returned
C1_Witness ==
    /\ Finished("grid_to_ll")
    /\ call.model = "WGS84"
    /\ Len(Queries) >= 2
    /\ Queries[Len(Queries)].ret = None
    /\ result = Return(HelmertOfBaseline)

\* the shift of query j is within 0.0001 m of the shift of query j - 1 in
\* both components, whatever the last digits of the doubles are
WithinTolerance(q, j) ==
    /\ BelowTolerance(q[j].ret.se, q[j - 1].ret.se) = {TRUE}
    /\ BelowTolerance(q[j].ret.sn, q[j - 1].ret.sn) = {TRUE}

\* the shift of query j is not within 0.0001 m of the shift of query j - 1,
\* whatever the last digits of the doubles are
BeyondTolerance(q, j) ==
    \/ BelowTolerance(q[j].ret.se, q[j - 1].ret.se) = {FALSE}
    \/ BelowTolerance(q[j].ret.sn, q[j - 1].ret.sn) = {FALSE}

(* C2: in grid_to_ll with a model other than 'OSGB36', when every query of  *)
(* the call returned a shift, the search ended at the first round of the    *)
(* loop whose shift is within 0.0001 m of the previous query's shift in     *)
(* both components, or after the 20th round of the loop if there is none;   *)
(* either way the call returns the WGS84 reverse projection of (easting -   *)
(* s.east, northing - s.north) for the shift s of the last query.  (A       *)
(* difference within 3 micrometres of 0.0001 m is below what the model      *)
(* resolves: no earlier round was surely within, the last one is not surely *)
(* beyond.  The double easting - s.east has one of the places of LenSub.)   *)
C2_SearchEndsAtFirstConvergedRound ==
    (Finished("grid_to_ll") /\ call.model # "OSGB36"
        /\ Queries # <<>> /\ \A j \in 1..Len(Queries) : Queries[j].ret.kind = "shifts") =>
        LET q == Queries
            n == Len(q)
            s == q[n].ret
        IN  /\ n >= 2
            /\ \A j \in 2..(n - 1) : ~WithinTolerance(q, j)
            /\ ~BeyondTolerance(q, n) \/ n = 1 + 20
            /\ \E x \in LenSub(call.a, s.se), y \in LenSub(call.b, s.sn) :
                   result = Return(ReverseProjected(x, y, "WGS84"))

\* a search that ran all 20 rounds of the loop without converging has returned
C2_Witness ==
    /\ Returned("grid_to_ll")
    /\ call.model = "WGS84"
    /\ Len(Queries) = 21
    /\ BeyondTolerance(Queries, 21)
    /\ result.value.fn = "reverse_project_onto_ellipsoid"

(* C3, as claimed: a call of grid_to_ll makes at most 20 queries of the     *)
(* interpolator, the first one at (easting, northing) counted.              *)
C3_AtMost20Queries ==
    Running("grid_to_ll") => Len(Queries) <= 20

(* C3, amended: a call of grid_to_ll makes at most 21 queries of the        *)
(* interpolator: the first one at (easting, northing) and at most 20 in     *)
(* the loop.                                                                *)
C3_AtMost21Queries ==
    Running("grid_to_ll") => Len(Queries) <= 21

C3_Witness ==
    /\ Finished("grid_to_ll")
    /\ Len(Queries) = 21

(* C4: grid_to_ll with model 'OSGB36' calls the OSGB36 reverse projection   *)
(* of (easting, northing) and nothing else, and what it returns is the      *)
(* point which that call returned: no query of the interpolator, no Helmert *)
(* shift, and ostn_cache is as the call found it.                           *)
C4_OSGB36ReturnsBaseline ==
    (Running("grid_to_ll") /\ call.model = "OSGB36") =>
        /\ \A i \in 1..Len(log) : log[i].fn = "reverse_project_onto_ellipsoid"
        /\ Len(log) <= 1
        /\ ostn_cache = cache0
        /\ pc \in {"baseline", "no_return", "done"}
        /\ pc = "done" =>
              result = Return(ReverseProjected(call.a, call.b, "OSGB36"))

\* the call has returned for a point west of the grid, outside all coverage
C4_Witness ==
    /\ Returned("grid_to_ll")
    /\ call.model = "OSGB36"
    /\ call.a.k < 0
    /\ Len(log) = 1

\* v is a multiple of 10^-ndigits metres (ndigits <= 6) and a nearest one to
\* the double that the decimal x stands for, which is within three
\* half-micrometres of x
IsRounded(v, x, ndigits) ==
    LET step == 10 ^ (6 - ndigits)
        diff == (v.k - x.k) * D + (v.f - x.f)
    IN  /\ v.f % step = 0
        /\ 2 * Abs(diff) < step + 3

\* the arguments of the running ll_to_grid call, the larger as the latitude
CallLL ==
    IF call.a < call.b THEN Degrees(call.b, call.a) ELSE Degrees(call.a, call.b)

(* C5: ll_to_grid with model 'OSGB36' returns the forward projection of the *)
(* point on the OSGB36 ellipsoid, rounded (to the rounding asked for, to 3  *)
(* places by default): it calls nothing but project_onto_grid, so makes no  *)
(* query of the interpolator and no Helmert shift, and leaves ostn_cache    *)
(* as it found it.                                                          *)
C5_OSGB36ProjectsOnly ==
    (Finished("ll_to_grid") /\ call.model = "OSGB36") =>
        LET p == project_onto_grid(CallLL, "OSGB36")
            nd == IF call.rounding < 0 THEN 3 ELSE call.rounding
        IN  /\ result.kind = "return"
            /\ Len(result.value) = 2
            /\ IsRounded(result.value[1], p.east, nd)
            /\ IsRounded(result.value[2], p.north, nd)
            /\ Len(log) = 1
            /\ log[1].fn = "project_onto_grid"
            /\ ostn_cache = cache0

\* the call has returned for a point that the correction grid covers
C5_Witness ==
    /\ Returned("ll_to_grid")
    /\ call.model = "OSGB36"
    /\ call.rounding < 0
    /\ LET p == project_onto_grid(CallLL, "OSGB36")
       IN  /\ find_OSTN02_shifts_at(<<>>, p.east, p.north).ret.kind = "shifts"
           /\ result.value[1] # p.east

\* the WGS84 forward projection P of the running ll_to_grid call's point
CallP == project_onto_grid(CallLL, "WGS84")

\* the rounding the call asked for, or the given default if it asked for none
AskedOr(default) == IF call.rounding < 0 THEN default ELSE call.rounding

\* the value returned is the point pt rounded to ndigits places
IsRoundedPoint(value, pt, ndigits) ==
    /\ Len(value) = 2
    /\ IsRounded(value[1], pt.east, ndigits)
    /\ IsRounded(value[2], pt.north, ndigits)

\* the running ll_to_grid call made one query, at P, and this is its event
OneQueryAtP ==
    /\ Len(Queries) = 1
    /\ Queries[1].args = <<CallP.east, CallP.north>>

(* C6, as claimed: ll_to_grid with model 'WGS84' queries the interpolator   *)
(* exactly once, at the WGS84 forward projection P of the point; if the     *)
(* query is defined the result is P plus the returned shift, component by   *)
(* component, and if it is undefined the result is the OSGB36 forward       *)
(* projection of the Helmert WGS84->OSGB36 shift of (lat, lon).             *)
C6_ResultIsPPlusShift ==
    (Finished("ll_to_grid") /\ call.model = "WGS84") =>
        /\ OneQueryAtP
        /\ Queries[1].ret.kind = "shifts" =>
              result = Return(<<LenAdd(CallP.east, Queries[1].ret.se),
                                LenAdd(CallP.north, Queries[1].ret.sn)>>)
        /\ Queries[1].ret = None =>
              LET h == project_onto_grid(shift_ll_from_wgs84_to_osgb36(CallLL), "OSGB36")
              IN  result = Return(<<h.east, h.north>>)

(* C6, amended: ll_to_grid with model 'WGS84' queries the interpolator      *)
(* exactly once, at the WGS84 forward projection P of the point; if the     *)
(* query is defined the result is P plus the returned shift, component by   *)
(* component, rounded to the rounding asked for (3 places by default), and  *)
(* if it is undefined the result is the OSGB36 forward projection of the    *)
(* Helmert WGS84->OSGB36 shift of (lat, lon), rounded to the rounding asked *)
(* for (0 places by default), to which P and the shift contribute nothing.  *)
C6_ResultIsRoundedPPlusShift ==
    (Finished("ll_to_grid") /\ call.model = "WGS84") =>
        /\ OneQueryAtP
        /\ Queries[1].ret.kind = "shifts" =>
              /\ result.kind = "return"
              /\ IsRoundedPoint(result.value,
                                Point(LenAdd(CallP.east, Queries[1].ret.se),
                                      LenAdd(CallP.north, Queries[1].ret.sn)),
                                AskedOr(3))
              /\ \A i \in 1..Len(log) : log[i].fn # "shift_ll_from_wgs84_to_osgb36"
        /\ Queries[1].ret = None =>
              /\ result.kind = "return"
              /\ IsRoundedPoint(result.value,
                                project_onto_grid(shift_ll_from_wgs84_to_osgb36(CallLL),
                                                  "OSGB36"),
                                AskedOr(0))

\* a covered point whose corrected easting has more decimals than were kept
C6_Witness ==
    /\ Returned("ll_to_grid")
    /\ call.model = "WGS84"
    /\ Queries[1].ret.kind = "shifts"
    /\ result.value[1] # LenAdd(CallP.east, Queries[1].ret.se)
    /\ call.rounding = 4

(* C7: ll_to_grid takes its two coordinates in either order: the call with  *)
(* the arguments exchanged, from the same cache, with the same model and    *)
(* rounding, gives the same result (or the same exception).                 *)
C7_ArgumentOrderIrrelevant ==
    Finished("ll_to_grid") =>
        \E o \in ll_to_grid(cache0, call.b, call.a, call.model, call.rounding) :
            /\ result = o.ret
            /\ ostn_cache = o.cache

\* the call was given the longitude first and has returned a grid point
C7_Witness ==
    /\ Returned("ll_to_grid")
    /\ call.a < call.b
    /\ call.model = "WGS84"
    /\ Queries[1].ret = None

\* the places C8 names for the path the running ll_to_grid call took
C8_Places ==
    IF call.rounding >= 0 THEN call.rounding
    ELSE IF call.model = "OSGB36" THEN 3
    ELSE IF Queries[1].ret.kind = "shifts" THEN 3
    ELSE 0

(* C8: ll_to_grid rounds its result by path: with no rounding asked for (a  *)
(* negative argument), a WGS84 point the correction grid covers and every   *)
(* OSGB36 point is rounded to 3 places and a WGS84 point outside coverage   *)
(* to 0 places; a rounding >= 0 is used unchanged on every path.            *)
C8_RoundingByPath ==
    Returned("ll_to_grid") =>
        /\ loc.rounding = C8_Places
        /\ IsRoundedPoint(result.value, Point(loc.easting, loc.northing), C8_Places)

\* an uncovered WGS84 point, no rounding asked for, returned in whole metres
C8_Witness ==
    /\ Returned("ll_to_grid")
    /\ call.model = "WGS84"
    /\ call.rounding < 0
    /\ Queries[1].ret = None
    /\ result.value[1].f % 1000000 = 0
    /\ loc.easting.f % 1000000 # 0

(* C9, as claimed: the converters return full-precision (unrounded) values  *)
(* and, for model 'WGS84', the result carries a coverage flag.              *)
C9_UnroundedWithCoverageFlag ==
    Returned("ll_to_grid") =>
        /\ result.value[1] = loc.easting
        /\ result.value[2] = loc.northing
        /\ call.model = "WGS84" => Len(result.value) = 3

(* C9, amended: grid_to_ll returns the unrounded (lat, lon) that the        *)
(* reverse projection or the Helmert shift computed; ll_to_grid returns     *)
(* the pair (easting, northing) rounded to the places of its path; neither  *)
(* result carries a coverage flag.                                          *)
C9_RoundedPairWithoutFlag ==
    /\ Returned("ll_to_grid") =>
          /\ DOMAIN result = {"kind", "value"}
          /\ DOMAIN result.value = 1..2
          /\ IsRounded(result.value[1], loc.easting, loc.rounding)
          /\ IsRounded(result.value[2], loc.northing, loc.rounding)
    /\ Returned("grid_to_ll") =>
          /\ DOMAIN result = {"kind", "value"}
          /\ result.value \in
                { ReverseProjected(call.a, call.b, "OSGB36"),
                  HelmertOfBaseline }
                    \cup (IF loc.x = Unset THEN {}
                          ELSE { ReverseProjected(loc.x, loc.y, "WGS84") })

\* a covered WGS84 point came back with its last decimals rounded away
C9_Witness ==
    /\ Returned("ll_to_grid")
    /\ call.model = "WGS84"
    /\ Queries[1].ret.kind = "shifts"
    /\ call.rounding = 0
    /\ result.value[2] # loc.northing

(* C10: ll_to_grid with a model that is neither 'WGS84' nor 'OSGB36' raises *)
(* KeyError before any projection or query, whatever the point, and leaves  *)
(* ostn_cache as it found it.                                               *)
C10_UnknownModelRaisesFirst ==
    (Finished("ll_to_grid") /\ call.model \notin {"WGS84", "OSGB36"}) =>
        /\ result = Raise("KeyError")
        /\ log = <<>>
        /\ ostn_cache = cache0

\* the call with an unknown model has failed, after an earlier call filled the cache
C10_Witness ==
    /\ Finished("ll_to_grid")
    /\ call.model = "ED50"
    /\ result.kind = "raise"
    /\ ostn_cache # <<>>

(* C11: grid_to_ll with a model that is neither 'WGS84' nor 'OSGB36' fails  *)
(* with an unknown-model error (KeyError, as ll_to_grid raises) whatever    *)
(* the point, and never returns a geographic point.                         *)
C11_UnknownModelRejected ==
    (Finished("grid_to_ll") /\ call.model \notin {"WGS84", "OSGB36"}) =>
        result = Raise("KeyError")

\* what the dataset holds for node (e, n), read without the decoder: the node
\* is in a row and a column of the dataset and neither of its values is "no data"
NodeDefined(e, n) ==
    /\ n >= 0 /\ n < Len(ostn_data)
    /\ LET row == ostn_data[n + 1]
           c == e - row.lz
       IN  /\ c >= 0 /\ 2 * c + 2 <= Len(row.trip)
           /\ \A i \in 1..2 :
                 LET t == row.trip[2 * c + i]
                 IN  t[1] * 1024 + t[2] * 32 + t[3] # 50736

\* the four corners of the cell of the running find_OSTN02_shifts_at call
CellCorners ==
    { <<call.a.k, call.b.k>>, <<call.a.k + 1, call.b.k>>,
      <<call.a.k, call.b.k + 1>>, <<call.a.k + 1, call.b.k + 1>> }

CellCovered == \A c \in CellCorners : NodeDefined(c[1], c[2])

(* C12: find_OSTN02_shifts_at returns None, and does not raise, when the    *)
(* easting or the northing is negative, the north index is beyond the last  *)
(* row, or one of the four corners of the cell is undefined, a corner in a  *)
(* row or column the dataset does not have (row n+1 for the last row n)     *)
(* counting as undefined; in every other case it returns a shift pair.      *)
C12_NoneWhereUncovered ==
    Finished("find_OSTN02_shifts_at") =>
        IF call.a.k < 0 \/ call.b.k < 0 \/ call.b.k >= Len(ostn_data) \/ ~CellCovered
        THEN result = Return(None)
        ELSE result.kind = "return" /\ result.value.kind = "shifts"

\* the shift the dataset stores for node (e, n), in micrometres, read without
\* the decoder: i = 1 for the east shift (base 86 m), i = 2 for the north (-82 m)
StoredShift(e, n, i) ==
    LET row == ostn_data[n + 1]
        t == row.trip[2 * (e - row.lz) + i]
        base == IF i = 1 THEN 86 ELSE -82
    IN  (base * 1000 + t[1] * 1024 + t[2] * 32 + t[3] - 50736) * 1000

\* the running find_OSTN02_shifts_at call asks at an exact grid node
AtExactNode ==
    /\ Finished("find_OSTN02_shifts_at")
    /\ call.a.k >= 0 /\ call.b.k >= 0
    /\ call.a.f = 0 /\ call.b.f = 0

(* C13: for every grid node whose shift is defined in the dataset,          *)
(* find_OSTN02_shifts_at(1000*eastIndex, 1000*northIndex) returns exactly   *)
(* the node's stored (eastShift, northShift).  Stated for the defined nodes *)
(* at which the interpolator answers by its own contract, those whose cell  *)
(* has all four corners defined: a call there returns the node's stored     *)
(* pair whatever calls came before it.                                      *)
C13_StoredValueAtEveryCoveredNode ==
    (AtExactNode /\ CellCovered) =>
        /\ result.kind = "return"
        /\ result.value # None
        /\ result.value.se = StoredShift(call.a.k, call.b.k, 1)
        /\ result.value.sn = StoredShift(call.a.k, call.b.k, 2)

\* the events this step added to the log
NewEvents ==
    IF Len(log') > Len(log) THEN { log'[i] : i \in (Len(log) + 1)..Len(log') } ELSE {}

(* C14: over any sequence of grid_to_ll, ll_to_grid and                     *)
(* find_OSTN02_shifts_at calls, a key once in ostn_cache stays in it with   *)
(* the same value, None included, and get_ostn_pair is called only for a    *)
(* node whose key is not in the cache: a node whose decode was stored, as a *)
(* pair or as None, is read from the cache from then on and not decoded     *)
(* again.                                                                   *)
C14_CacheOnlyGrows ==
    [][ /\ \A k \in DOMAIN ostn_cache :
              k \in DOMAIN ostn_cache' /\ ostn_cache'[k] = ostn_cache[k]
        /\ \A ev \in NewEvents : \A j \in 1..Len(ev.decoded) :
              /\ (ev.decoded[j][1] + 701 * ev.decoded[j][2]) \notin DOMAIN ostn_cache
              /\ (ev.ret.kind # "raise" \/ j < Len(ev.decoded)) =>
                    (ev.decoded[j][1] + 701 * ev.decoded[j][2]) \in DOMAIN ostn_cache'
      ]_vars

\* a query inside the rows of the dataset was answered None from the cache alone
C14_Witness ==
    /\ pc = "done"
    /\ \E i \in 1..Len(log) :
          /\ log[i].fn = "find_OSTN02_shifts_at"
          /\ log[i].ret = None
          /\ log[i].decoded = <<>>
          /\ log[i].args[1].k >= 0
          /\ log[i].args[2].k >= 0
          /\ log[i].args[2].k < Len(ostn_data)
          /\ (log[i].args[1].k + 701 * log[i].args[2].k) \in DOMAIN cache0
          /\ cache0[log[i].args[1].k + 701 * log[i].args[2].k] = None

(* C15: when callers run find_OSTN02_shifts_at concurrently on the shared   *)
(* ostn_cache, their membership tests, decodes and stores interleaved in    *)
(* any order, every call returns what it returns running alone on an empty  *)
(* cache.                                                                   *)
C15_ConcurrentCallsAsAlone ==
    \A t \in DOMAIN threads :
        threads[t].pc = "done" =>
            threads[t].ret =
                find_OSTN02_shifts_at(<<>>, threads[t].easting, threads[t].northing).ret

(* C18: the cache is transparent: after any sequence of earlier calls, with *)
(* eastings of 701000 m and more among them, a call of                      *)
(* find_OSTN02_shifts_at returns what it returns on an empty cache, and     *)
(* every cache entry a lookup of node (e, n) reads holds                    *)
(* get_ostn_pair(e, n).                                                     *)
C18_CacheTransparent ==
    Finished("find_OSTN02_shifts_at") =>
        /\ result = LET alone == find_OSTN02_shifts_at(<<>>, call.a, call.b).ret
                    IN  IF alone.kind = "raise" THEN alone ELSE Return(alone)
        /\ (call.a.k >= 0 /\ call.b.k >= 0 /\ call.b.k < Len(ostn_data)
              /\ result.kind = "return") =>
              ostn_cache[call.a.k + 701 * call.b.k] = get_ostn_pair(call.a.k, call.b.k)

(* C16: every loop reached from grid_to_ll or ll_to_grid stops after a      *)
(* bounded number of passes for every input.  The footpoint iteration is a  *)
(* function of phi alone, so a pass that starts from a phi an earlier pass  *)
(* of the call has tried repeats for ever: a loop that stops, by            *)
(* convergence or by a did-not-converge failure at a bound, never starts    *)
(* such a pass.                                                             *)
C16_NoPassFromATriedLatitude ==
    pc = "footpoint" => loc.phi \notin loc.tried

\* a <= b for lengths
LenLE(a, b) == a.k < b.k \/ (a.k = b.k /\ a.f <= b.f)

\* the lengths a and b differ by at most tol micrometres (0.001 m is 1000)
Near(a, b, tol) == LenLE(Moved(b, -tol), a) /\ LenLE(a, Moved(b, tol))

(* C17: for every (easting, northing) inside the coverage of the correction *)
(* grid (the interpolator returns a shift there),                           *)
(* ll_to_grid(grid_to_ll(easting, northing, 'WGS84'), 'WGS84') returns a    *)
(* pair that is within 0.001 m of (easting, northing) in each component,    *)
(* whether the search of grid_to_ll ended by convergence, at the 20-round   *)
(* cap or otherwise.                                                        *)
C17_RoundTripWithinMillimetre ==
    (Returned("round_trip") /\ Queries[1].ret # None) =>
        /\ Near(result.value[1], call.a, 1000)
        /\ Near(result.value[2], call.b, 1000)


=============================================================================
